---- MODULE Spec2Model ----
(***************************************************************************)
(* Model of the Sentient-Splat viewer: the splat rendering pipeline        *)
(* (Renderer, QuadMesh, Buffer, VertexArray, Shader), the GL state it      *)
(* drives, the two shader stages, the frame loop of App, and the Scene     *)
(* with its JSON loader (SceneIO).                                         *)
(*                                                                         *)
(* Floats are modelled as integers in thousandths (1000 stands for 1.0).   *)
(* GL object names are drawn from one increasing counter, so a name        *)
(* identifies one object during a whole run.                               *)
(***************************************************************************)
EXTENDS Integers, Sequences, FiniteSets, TLC

VARIABLES
    pc,           \* position of main / App::run, or "client" for a free client
    gl,           \* state of the GL context, with the log of GL calls of the latest step
    m_window,     \* App::m_window: 0 (nullptr) or the window
    m_renderer,   \* App::m_renderer : unique_ptr<Renderer>
    m_scene,      \* App::m_scene    : unique_ptr<Scene>, the Scene being its m_gaussians
    m_scene_path, \* App::m_scene_path : the path of the latest scene loaded
    m_camera,     \* App::m_camera   : unique_ptr<Camera>, the Camera being the view it yields
    m_debug_ui,   \* App::m_debug_ui : unique_ptr<DebugUI>
    frame,        \* frames started by App::run / calls made by the client
    closeFlag,    \* glfwWindowShouldClose(m_window)
    thrown,       \* the exception that left the latest call, <<>> when none
    call,         \* the call on the Renderer made by the latest step
    stage,        \* the latest shader invocation (inputs and outputs)
    glfw,         \* the GLFW library: initialised or not, its window, the cursor mode
    trace,        \* the calls the program has made on GLFW, ImGui and its subsystems
    m_mouse_captured, \* App::m_mouse_captured
    m_last_mouse  \* App::m_last_mouse_x, App::m_last_mouse_y

vars == <<pc, gl, m_window, m_renderer, m_scene, m_scene_path, m_camera, m_debug_ui,
          frame, closeFlag, thrown, call, stage, glfw, trace, m_mouse_captured, m_last_mouse>>

\* The mouse members of App.
mouseVars == <<m_mouse_captured, m_last_mouse>>
\* What no call on a Renderer or a Scene touches.
appVars == <<glfw, trace, m_mouse_captured, m_last_mouse>>

-----------------------------------------------------------------------------
(* Bounds of the model *)

MaxRecords == 2
MaxFrames == 2
MaxCalls == 2

-----------------------------------------------------------------------------
(* Scalars *)

Null == <<>>

Max(a, b) == IF a >= b THEN a ELSE b
Min(a, b) == IF a <= b THEN a ELSE b
Abs(a) == IF a >= 0 THEN a ELSE -a

-----------------------------------------------------------------------------
(* Scene.hpp: Gaussian3D, GaussianInstanceGPU, Scene *)

Quat(qx, qy, qz, qw) == [x |-> qx, y |-> qy, z |-> qz, w |-> qw]

Gaussian3D(mean, scale, rotation, opacity, color) ==
    [mean |-> mean, scale |-> scale, rotation |-> rotation,
     opacity |-> opacity, color |-> color]

\* Records the scene loader can deliver: values are not validated on load.
GaussianSamples ==
    { Gaussian3D(<<0, 0, 0>>, <<1000, 1000, 1000>>, Quat(0, 0, 0, 1000), 1000, <<1000, 0, 0>>),
      Gaussian3D(<<1000, 2000, -3000>>, <<10, 20, 30>>, Quat(100, 200, 300, 400), 0, <<500, 600, 700>>),
      Gaussian3D(<<-1000, 500, -200>>, <<-1000, 5, 7>>, Quat(700, 0, 0, 710), 2000, <<-500, 1500, 250>>) }

RECURSIVE SeqsUpTo(_, _)
SeqsUpTo(S, n) ==
    IF n = 0 THEN { <<>> }
    ELSE LET shorter == SeqsUpTo(S, n - 1)
         IN shorter \cup { Append(s, x) : s \in shorter, x \in S }

Scenes == SeqsUpTo(GaussianSamples, MaxRecords)

SizeofGaussianInstanceGPU == 64
SizeofVec4 == 16
SizeofFloat == 4

vec4(v3, w) == <<v3[1], v3[2], v3[3], w>>

\* PackInstance with color.g and color.b changing places.
PackInstance_SwapsColor(g) ==
    [mean_opacity |-> vec4(g.mean, g.opacity),
     quat         |-> <<g.rotation.x, g.rotation.y, g.rotation.z, g.rotation.w>>,
     scale_colorx |-> vec4(g.scale, g.color[1]),
     coloryz_pad  |-> <<g.color[3], g.color[2], 0, 0>>]

\* The body of the packing loop: one GaussianInstanceGPU from one Gaussian3D.
PackInstance(g) ==
    [mean_opacity |-> vec4(g.mean, g.opacity),
     quat         |-> <<g.rotation.x, g.rotation.y, g.rotation.z, g.rotation.w>>,
     scale_colorx |-> vec4(g.scale, g.color[1]),
     coloryz_pad  |-> <<g.color[2], g.color[3], 0, 0>>]

\* PackInstances leaving out the fully transparent records.
RECURSIVE PackInstances_SkipsTransparent(_)
PackInstances_SkipsTransparent(gaussians) ==
    IF gaussians = <<>> THEN <<>>
    ELSE IF Head(gaussians).opacity = 0
    THEN PackInstances_SkipsTransparent(Tail(gaussians))
    ELSE <<PackInstance(Head(gaussians))>> \o PackInstances_SkipsTransparent(Tail(gaussians))

\* The packing loop: push_back of one instance per record, in order.
RECURSIVE PackInstances(_)
PackInstances(gaussians) ==
    IF gaussians = <<>> THEN <<>>
    ELSE <<PackInstance(Head(gaussians))>> \o PackInstances(Tail(gaussians))

\* Reading a GaussianInstanceGPU by the meaning its layout gives each slot.
UnpackInstance(inst) ==
    Gaussian3D(SubSeq(inst.mean_opacity, 1, 3),
               SubSeq(inst.scale_colorx, 1, 3),
               Quat(inst.quat[1], inst.quat[2], inst.quat[3], inst.quat[4]),
               inst.mean_opacity[4],
               <<inst.scale_colorx[4], inst.coloryz_pad[1], inst.coloryz_pad[2]>>)

-----------------------------------------------------------------------------
(* SceneIO.cpp: the scene files and SceneIO::load_scene_json.               *)
(* A JSON value is [t, v]: t its type ("absent" for a key the object does   *)
(* not contain), v its elements (an array), its value (<<n>>, a number) or  *)
(* <<>>.                                                                    *)

JAbsent == [t |-> "absent", v |-> <<>>]
JArray(v) == [t |-> "array", v |-> v]
JNumber(n) == [t |-> "number", v |-> <<n>>]
JString == [t |-> "string", v |-> <<>>]

\* One element of the "gaussians" array, by the keys load_scene_json reads.
JItem(color, mean, position, scale, rotation, opacity) ==
    [color |-> color, mean |-> mean, position |-> position, scale |-> scale,
     rotation |-> rotation, opacity |-> opacity]

\* Every key, in the README's format; rotation is [qx, qy, qz, qw].
ItemFull ==
    JItem(JArray(<<1000, 0, 0>>), JArray(<<1000, 2000, -3000>>), JAbsent,
          JArray(<<10, 20, 30>>), JArray(<<100, 200, 300, 900>>), JNumber(500))
\* Only "color".
ItemColorOnly ==
    JItem(JArray(<<500, 600, 700>>), JAbsent, JAbsent, JAbsent, JAbsent, JAbsent)
\* Both "mean" and "position"; opacity and color outside [0,1].
ItemMeanAndPosition ==
    JItem(JArray(<<-500, 1500, 250>>), JArray(<<1000, 1000, 1000>>), JArray(<<7000, 8000, 9000>>),
          JAbsent, JAbsent, JNumber(2000))
\* Keys present with values load_scene_json does not accept: a "mean" and a
\* "scale" of two elements, a "rotation" of three, an "opacity" that is a
\* string; "position" is well formed.
ItemMalformed ==
    JItem(JArray(<<0, 1000, 0>>), JArray(<<4000, 5000>>), JArray(<<7000, 8000, 9000>>),
          JArray(<<2000, 2000>>), JArray(<<100, 200, 300>>), JString)
\* No "color".
ItemNoColor ==
    JItem(JAbsent, JArray(<<1000, 2000, -3000>>), JAbsent, JAbsent, JAbsent, JNumber(500))

ItemsWithColor == {ItemFull, ItemColorOnly, ItemMeanAndPosition, ItemMalformed}

\* A file: one that cannot be opened, one that is not JSON, a document without
\* "gaussians", one whose "gaussians" is not an array, or a document with its
\* "gaussians" array.
JDocument(items) == [kind |-> "gaussians", items |-> items]
BadFiles ==
    { [kind |-> k, items |-> <<>>] : k \in {"unreadable", "not_json", "no_gaussians", "gaussians_not_array"} }
Documents ==
    LET good == SeqsUpTo(ItemsWithColor, MaxRecords)
    IN { JDocument(items) : items \in good }
         \cup { JDocument(Append(items, ItemNoColor)) : items \in SeqsUpTo(ItemsWithColor, MaxRecords - 1) }
         \cup BadFiles

\* A path is modelled by the file it names; the empty string names none.
NoPath == <<>>
Paths == { <<d>> : d \in Documents }
FileAt(filepath) == filepath[1]

\* glm::quat(w, x, y, z): the first argument is w.
glm_quat(w, x, y, z) == Quat(x, y, z, w)

\* load_scene_json: g.rotation = glm::quat(item["rotation"][0..3])
LoadRotation(v) == glm_quat(v[1], v[2], v[3], v[4])

IsArrayOf(j, n) == j.t = "array" /\ Len(j.v) >= n

\* The loop body with the "position" key tried before "mean".
LoadItem_PositionFirst(item) ==
    Gaussian3D(IF IsArrayOf(item.position, 3) THEN SubSeq(item.position.v, 1, 3)
               ELSE IF IsArrayOf(item.mean, 3) THEN SubSeq(item.mean.v, 1, 3)
               ELSE <<0, 0, 0>>,
               IF IsArrayOf(item.scale, 3) THEN SubSeq(item.scale.v, 1, 3) ELSE <<1000, 1000, 1000>>,
               IF IsArrayOf(item.rotation, 4) THEN LoadRotation(item.rotation.v)
               ELSE glm_quat(1000, 0, 0, 0),
               IF item.opacity.t = "number" THEN item.opacity.v[1] ELSE 1000,
               SubSeq(item.color.v, 1, 3))

\* load_scene_json, the loop body for an item that contains "color".
LoadItem(item) ==
    LET mean == IF IsArrayOf(item.mean, 3) THEN SubSeq(item.mean.v, 1, 3)
                ELSE IF IsArrayOf(item.position, 3) THEN SubSeq(item.position.v, 1, 3)
                ELSE <<0, 0, 0>>
        scale == IF IsArrayOf(item.scale, 3) THEN SubSeq(item.scale.v, 1, 3)
                 ELSE <<1000, 1000, 1000>>
        rotation == IF IsArrayOf(item.rotation, 4) THEN LoadRotation(item.rotation.v)
                    ELSE glm_quat(1000, 0, 0, 0)
        opacity == IF item.opacity.t = "number" THEN item.opacity.v[1] ELSE 1000
        color == SubSeq(item.color.v, 1, 3)
    IN Gaussian3D(mean, scale, rotation, opacity, color)

\* load_scene_json, the loop: the records so far, or the exception thrown.
RECURSIVE LoadItems(_, _)
LoadItems(items, gaussians) ==
    IF items = <<>> THEN [thrown |-> Null, gaussians |-> gaussians]
    ELSE IF Head(items).color.t = "absent"
         THEN [thrown |-> <<"Gaussian missing 'color' field">>, gaussians |-> <<>>]
         ELSE LoadItems(Tail(items), Append(gaussians, LoadItem(Head(items))))

\* SceneIO::load_scene_json: [thrown, scene].
load_scene_json(filepath) ==
    LET file == FileAt(filepath)
    IN IF file.kind = "unreadable"
       THEN [thrown |-> <<"Failed to open file: ">>, scene |-> <<>>]
       ELSE IF file.kind = "not_json"
       THEN [thrown |-> <<"parse_error">>, scene |-> <<>>]
       ELSE IF file.kind # "gaussians"
       THEN [thrown |-> <<"JSON missing 'gaussians' array: ">>, scene |-> <<>>]
       ELSE LET res == LoadItems(file.items, <<>>)
            IN [thrown |-> res.thrown, scene |-> res.gaussians]

\* save_scene_json, the loop body: the JSON object of one record; "rotation"
\* is written as [x, y, z, w].
SaveItem(g) ==
    JItem(JArray(g.color), JArray(g.mean), JAbsent, JArray(g.scale),
          JArray(<<g.rotation.x, g.rotation.y, g.rotation.z, g.rotation.w>>),
          JNumber(g.opacity))

\* SceneIO::save_scene_json: [thrown, filepath], the path naming the file
\* written; a file that cannot be opened for writing makes it throw.
save_scene_json(scene, writable) ==
    IF ~writable
    THEN [thrown |-> <<"Failed to open file for writing: ">>, filepath |-> NoPath]
    ELSE [thrown |-> Null,
          filepath |-> <<JDocument([i \in 1..Len(scene) |-> SaveItem(scene[i])])>>]

\* App::load_scene assigning whatever the loader got to, failed or not.
App_load_scene_call_AssignsOnFailure(scene, scene_path, filepath) ==
    LET res == load_scene_json(filepath)
    IN [scene |-> res.scene, scene_path |-> filepath, ret |-> res.thrown = Null,
        stderr |-> res.thrown]

\* App::load_scene: [scene, scene_path, ret, stderr] given the members before.
App_load_scene_call(scene, scene_path, filepath) ==
    LET res == load_scene_json(filepath)
    IN IF res.thrown = Null
       THEN [scene |-> res.scene, scene_path |-> filepath, ret |-> TRUE, stderr |-> <<>>]
       ELSE [scene |-> scene, scene_path |-> scene_path, ret |-> FALSE, stderr |-> res.thrown]

\* Scene::set_gaussians, Scene::add_gaussian, Scene::clear, Scene::gaussian_count
Scene_set_gaussians(m_gaussians, gaussians) == gaussians
Scene_add_gaussian_Prepends(m_gaussians, gaussian) == <<gaussian>> \o m_gaussians
Scene_add_gaussian(m_gaussians, gaussian) == Append(m_gaussians, gaussian)
Scene_clear(m_gaussians) == <<>>
Scene_gaussian_count(m_gaussians) == Len(m_gaussians)

-----------------------------------------------------------------------------
(* The GL context: the part of the GL state machine the viewer drives.      *)
(* Each operator is one GL entry point, as a function from state to state.  *)

AttribDefault ==
    [enabled |-> FALSE, size |-> 4, stride |-> 0, offset |-> 0, divisor |-> 0, buffer |-> 0]

\* A mat4 uniform is named by a pair: <<0, 0>> the zero matrix a linked program
\* starts with, <<1, id>> a view matrix, <<2, aspect>> a projection matrix.
UniformsDefault == [uView |-> <<0, 0>>, uProj |-> <<0, 0>>]

\* The state of a freshly created context.
GLInit ==
    [blend |-> FALSE, blendSrc |-> "ONE", blendDst |-> "ZERO",
     depthTest |-> FALSE, depthMask |-> TRUE,
     program |-> 0, vertexArray |-> 0, arrayBuffer |-> 0,
     programs |-> {}, deletePending |-> {}, shaders |-> {},
     buffers |-> {}, vertexArrays |-> {},
     bufferData |-> <<>>, attribs |-> <<>>, uniforms |-> <<>>,
     viewport |-> <<0, 0>>, color |-> "undefined", depth |-> "undefined",
     next |-> 1, log |-> <<>>]

\* The state without the call log.
GLState(g) == [g EXCEPT !.log = <<>>]

\* f with key k removed.
Without(f, k) == [x \in (DOMAIN f) \ {k} |-> f[x]]

glEnable(g, cap) ==
    IF cap = "BLEND" THEN [g EXCEPT !.blend = TRUE]
    ELSE IF cap = "DEPTH_TEST" THEN [g EXCEPT !.depthTest = TRUE]
    ELSE g

glDisable(g, cap) ==
    IF cap = "BLEND" THEN [g EXCEPT !.blend = FALSE]
    ELSE IF cap = "DEPTH_TEST" THEN [g EXCEPT !.depthTest = FALSE]
    ELSE g

glBlendFunc(g, src, dst) == [g EXCEPT !.blendSrc = src, !.blendDst = dst]

glDepthMask(g, flag) == [g EXCEPT !.depthMask = flag]

\* glClear(GL_COLOR_BUFFER_BIT | GL_DEPTH_BUFFER_BIT): the depth buffer is
\* cleared only when depth writes are enabled.
glClear(g) ==
    [g EXCEPT !.color = "cleared",
              !.depth = IF g.depthMask THEN "cleared" ELSE @,
              !.log = Append(@, [call |-> "glClear", state |-> GLState(g)])]

glViewport(g, w, h) == [g EXCEPT !.viewport = <<w, h>>]

\* glGenBuffers(1, &name): the new name is g.next.
glGenBuffers(g) ==
    [g EXCEPT !.buffers = @ \cup {g.next},
              !.bufferData = @ @@ (g.next :> [bytes |-> 0, usage |-> "NONE", data |-> <<>>]),
              !.next = @ + 1]

glDeleteBuffers(g, name) ==
    IF name \notin g.buffers THEN g
    ELSE [g EXCEPT !.buffers = @ \ {name},
                   !.bufferData = Without(@, name),
                   !.arrayBuffer = IF @ = name THEN 0 ELSE @]

glBindBuffer(g, name) == [g EXCEPT !.arrayBuffer = name]

\* glBufferData(GL_ARRAY_BUFFER, bytes, data, usage) on the bound buffer.
glBufferData(g, bytes, data, usage) ==
    IF g.arrayBuffer \notin g.buffers THEN g
    ELSE [g EXCEPT !.bufferData[g.arrayBuffer] =
                       [bytes |-> bytes, usage |-> usage, data |-> data],
                   !.log = Append(@, [call |-> "glBufferData", buffer |-> g.arrayBuffer,
                                      bytes |-> bytes, usage |-> usage, data |-> data])]

glGenVertexArrays(g) ==
    [g EXCEPT !.vertexArrays = @ \cup {g.next},
              !.attribs = @ @@ (g.next :> [i \in 0..4 |-> AttribDefault]),
              !.next = @ + 1]

glDeleteVertexArrays(g, name) ==
    IF name \notin g.vertexArrays THEN g
    ELSE [g EXCEPT !.vertexArrays = @ \ {name},
                   !.attribs = Without(@, name),
                   !.vertexArray = IF @ = name THEN 0 ELSE @]

glBindVertexArray(g, name) == [g EXCEPT !.vertexArray = name]

\* The three attribute calls act on the bound vertex array (none bound: an
\* error in the core profile, no effect).
glEnableVertexAttribArray(g, index) ==
    IF g.vertexArray \notin g.vertexArrays THEN g
    ELSE [g EXCEPT !.attribs[g.vertexArray][index].enabled = TRUE]

glVertexAttribPointer(g, index, size, stride, offset) ==
    IF g.vertexArray \notin g.vertexArrays THEN g
    ELSE [g EXCEPT !.attribs[g.vertexArray][index].size = size,
                   !.attribs[g.vertexArray][index].stride = stride,
                   !.attribs[g.vertexArray][index].offset = offset,
                   !.attribs[g.vertexArray][index].buffer = g.arrayBuffer]

glVertexAttribDivisor(g, index, divisor) ==
    IF g.vertexArray \notin g.vertexArrays THEN g
    ELSE [g EXCEPT !.attribs[g.vertexArray][index].divisor = divisor]

glCreateShader(g) == [g EXCEPT !.shaders = @ \cup {g.next}, !.next = @ + 1]

glDeleteShader(g, name) == [g EXCEPT !.shaders = @ \ {name}]

glCreateProgram(g) ==
    [g EXCEPT !.programs = @ \cup {g.next},
              !.uniforms = @ @@ (g.next :> UniformsDefault),
              !.next = @ + 1]

\* A program that is current is only flagged; it goes when it stops being current.
glDeleteProgram(g, name) ==
    IF name \notin g.programs THEN g
    ELSE IF g.program = name THEN [g EXCEPT !.deletePending = @ \cup {name}]
    ELSE [g EXCEPT !.programs = @ \ {name}, !.uniforms = Without(@, name)]

glUseProgram(g, name) ==
    IF g.program # name /\ g.program \in g.deletePending
    THEN [g EXCEPT !.program = name,
                   !.programs = @ \ {g.program},
                   !.deletePending = @ \ {g.program},
                   !.uniforms = Without(@, g.program)]
    ELSE [g EXCEPT !.program = name]

\* glUniformMatrix4fv(glGetUniformLocation(program, name), ...) on the current program.
glUniformMatrix4fv(g, name, value) ==
    IF g.program \notin g.programs THEN g
    ELSE [g EXCEPT !.uniforms[g.program][name] = value]

\* The draw is logged with the state it is issued under; it writes color, and
\* depth when depth test and depth writes are both on.
glDrawArraysInstanced(g, first, count, instances) ==
    [g EXCEPT !.color = IF instances > 0 THEN "drawn" ELSE @,
              !.depth = IF instances > 0 /\ g.depthTest /\ g.depthMask THEN "drawn" ELSE @,
              !.log = Append(@, [call |-> "glDrawArraysInstanced", first |-> first,
                                 count |-> count, instances |-> instances,
                                 state |-> GLState(g)])]

-----------------------------------------------------------------------------
(* Shader.cpp *)

\* What the driver answers to the compile and link requests of one
\* create_program call, and the info logs it can return.
DriverOutcomes == {"ok", "vs_fails", "fs_fails", "link_fails"}
InfoLogs == {"0(12) : error C0000: syntax error", "error: varying mismatch"}

runtime_error(prefix, log) == <<[what |-> <<prefix, log>>]>>

\* Shader::compile: result [gl, value, thrown].
Shader_compile(g, ok, log) ==
    LET g1 == glCreateShader(g)
        s == g.next
    IN IF ~ok
       THEN [gl |-> glDeleteShader(g1, s), value |-> 0,
             thrown |-> runtime_error("Shader compile failed: ", log)]
       ELSE [gl |-> g1, value |-> s, thrown |-> Null]

\* Shader::create_program: result [gl, value, thrown].
Shader_create_program(g, drv, log) ==
    LET vs == Shader_compile(g, drv # "vs_fails", log)
        fs == Shader_compile(vs.gl, drv # "fs_fails", log)
        g1 == glCreateProgram(fs.gl)
        p == fs.gl.next
        g2 == glDeleteShader(glDeleteShader(g1, vs.value), fs.value)
    IN IF vs.thrown # Null THEN vs
       ELSE IF fs.thrown # Null THEN fs
       ELSE IF drv = "link_fails"
       THEN [gl |-> glDeleteProgram(g2, p), value |-> 0,
             thrown |-> runtime_error("Program link failed: ", log)]
       ELSE [gl |-> g2, value |-> p, thrown |-> Null]

-----------------------------------------------------------------------------
(* Buffers.hpp, Buffers.cpp: Buffer, VertexArray, QuadMesh *)

\* unique_ptr<Buffer>::~unique_ptr: Buffer::~Buffer when it owns a buffer.
Buffer_destroy(g, ptr) ==
    IF ptr = Null \/ ptr[1] = 0 THEN g ELSE glDeleteBuffers(g, ptr[1])

VertexArray_destroy(g, ptr) ==
    IF ptr = Null \/ ptr[1] = 0 THEN g ELSE glDeleteVertexArrays(g, ptr[1])

\* set_data sizing the store by the element count instead of the byte count.
Buffer_set_data_CountForBytes(g, vbo, data, sizeofT, usage) ==
    glBufferData(glBindBuffer(g, vbo), Len(data), data, usage)

\* Buffer::set_data(GL_ARRAY_BUFFER, data, usage): bind, then glBufferData of
\* count * sizeof(T) bytes.
Buffer_set_data(g, vbo, data, sizeofT, usage) ==
    glBufferData(glBindBuffer(g, vbo), Len(data) * sizeofT, data, usage)

quadVerts ==
    << -1000, -1000,   1000, -1000,   1000, 1000,
       -1000, -1000,   1000,  1000,  -1000, 1000 >>

\* QuadMesh::QuadMesh: result [gl, value].
QuadMesh_new(g) ==
    LET g1 == glGenVertexArrays(g)
        vao == g.next
        g2 == glGenBuffers(g1)
        vbo == g1.next
        g3 == glBindVertexArray(g2, vao)
        g4 == Buffer_set_data(g3, vbo, quadVerts, SizeofFloat, "STATIC_DRAW")
        g5 == glEnableVertexAttribArray(g4, 0)
        g6 == glVertexAttribPointer(g5, 0, 2, 2 * SizeofFloat, 0)
        g7 == glBindVertexArray(g6, 0)
    IN [gl |-> g7, value |-> <<[m_vao |-> <<vao>>, m_vbo |-> <<vbo>>]>>]

\* QuadMesh::~QuadMesh: members go in reverse order of declaration.
QuadMesh_destroy(g, ptr) ==
    IF ptr = Null THEN g
    ELSE VertexArray_destroy(Buffer_destroy(g, ptr[1].m_vbo), ptr[1].m_vao)

\* ~InstanceBuffer
InstanceBuffer_destroy(g, ptr) ==
    IF ptr = Null THEN g ELSE Buffer_destroy(g, ptr[1].vbo)

-----------------------------------------------------------------------------
(* Renderer.hpp, Renderer.cpp *)

\* Renderer::Renderer
Renderer_new ==
    [m_viewport_width |-> 0, m_viewport_height |-> 0, m_program |-> 0,
     m_quad_mesh |-> Null, m_instance_buffer |-> Null]

\* create_shader_program catching the exception and going on without a program.
Renderer_create_shader_program_Swallows(g, r, drv, log) ==
    LET res == Shader_create_program(g, drv, log)
    IN [gl |-> res.gl, r |-> [r EXCEPT !.m_program = res.value], thrown |-> Null]

\* Renderer::create_shader_program: result [gl, r, thrown]; the exception of
\* Shader::create_program is logged and rethrown, m_program keeps its value.
Renderer_create_shader_program(g, r, drv, log) ==
    LET res == Shader_create_program(g, drv, log)
    IN IF res.thrown # Null
       THEN [gl |-> res.gl, r |-> r, thrown |-> res.thrown]
       ELSE [gl |-> res.gl, r |-> [r EXCEPT !.m_program = res.value], thrown |-> Null]

\* Renderer::init: result [gl, r, thrown].  Assigning a unique_ptr builds the
\* new object first and destroys the old one after.
Renderer_init(g, r, width, height, drv, log) ==
    LET r1 == [r EXCEPT !.m_viewport_width = width, !.m_viewport_height = height]
        sp == Renderer_create_shader_program(g, r1, drv, log)
        qm == QuadMesh_new(sp.gl)
        g1 == QuadMesh_destroy(qm.gl, sp.r.m_quad_mesh)
        g2 == InstanceBuffer_destroy(g1, sp.r.m_instance_buffer)
    IN IF sp.thrown # Null THEN sp
       ELSE [gl |-> g2,
             r |-> [sp.r EXCEPT !.m_quad_mesh = qm.value,
                                !.m_instance_buffer = <<[vbo |-> Null, instance_count |-> 0]>>],
             thrown |-> Null]

\* Renderer::viewport_width, Renderer::viewport_height
Renderer_viewport_width(r) == r.m_viewport_width
Renderer_viewport_height(r) == r.m_viewport_height

\* aspect_ratio answering 0 for a framebuffer without height.
Renderer_aspect_ratio_ZeroWithoutHeight(r) ==
    IF r.m_viewport_height > 0
    THEN (r.m_viewport_width * 1000) \div r.m_viewport_height
    ELSE 0

\* Renderer::aspect_ratio, in thousandths
Renderer_aspect_ratio(r) ==
    IF r.m_viewport_height > 0
    THEN (r.m_viewport_width * 1000) \div r.m_viewport_height
    ELSE 1000

\* Renderer::begin_frame
Renderer_begin_frame(g, r) ==
    glViewport(glClear(g), r.m_viewport_width, r.m_viewport_height)

\* The four per-instance attributes, locations 1..4 (the loop i = 0..3).
RECURSIVE InstanceAttribs(_, _)
InstanceAttribs(g, i) ==
    IF i >= 4 THEN g
    ELSE LET g1 == glEnableVertexAttribArray(g, i + 1)
             g2 == glVertexAttribPointer(g1, i + 1, 4, SizeofGaussianInstanceGPU, i * SizeofVec4)
             g3 == glVertexAttribDivisor(g2, i + 1, 1)
         IN InstanceAttribs(g3, i + 1)

\* The setup with the blend factors of straight (not premultiplied) alpha.
Renderer_setup_state_StraightAlpha(g) ==
    glDepthMask(glEnable(glBlendFunc(glEnable(g, "BLEND"), "SRC_ALPHA", "ONE_MINUS_SRC_ALPHA"),
                         "DEPTH_TEST"), FALSE)

\* Renderer::render_scene, "Setup rendering state"
Renderer_setup_state(g) ==
    glDepthMask(glEnable(glBlendFunc(glEnable(g, "BLEND"), "ONE", "ONE_MINUS_SRC_ALPHA"),
                         "DEPTH_TEST"), FALSE)

\* The cleanup without re-enabling depth writes.
Renderer_cleanup_state_KeepsDepthMaskOff(g) == glDisable(g, "BLEND")

\* Renderer::render_scene, "Cleanup state"
Renderer_cleanup_state(g) == glDisable(glDepthMask(g, TRUE), "BLEND")

\* What glGetError can answer: GL_NO_ERROR, or the flag a failed command left
\* (GL_INVALID_OPERATION).
GLErrors == {0, 1282}

\* No report of the error.
Renderer_report_error_Silent(err) == <<>>

\* The error report of render_scene: the stderr lines it printed, each one
\* the error code of "[Renderer] GL Error: 0x%x".
Renderer_report_error(err) == IF err # 0 THEN <<err>> ELSE <<>>

\* Renderer::render_scene past the empty-scene test, err being what glGetError
\* answers after the cleanup: result [gl, r, err, stderr].
Renderer_draw_scene(g, r, gaussians, view, projection, err) ==
    LET instanceData == PackInstances(gaussians)
        \* m_instance_buffer->vbo = std::make_unique<Buffer>()
        g1 == glGenBuffers(g)
        vbo == g.next
        g2 == Buffer_destroy(g1, r.m_instance_buffer[1].vbo)
        g3 == Buffer_set_data(g2, vbo, instanceData, SizeofGaussianInstanceGPU, "DYNAMIC_DRAW")
        ib == [vbo |-> <<vbo>>, instance_count |-> Len(instanceData)]
        g4 == Renderer_setup_state(g3)
        g5 == glUniformMatrix4fv(glUniformMatrix4fv(glUseProgram(g4, r.m_program),
                              "uView", view), "uProj", projection)
        g6 == glBindBuffer(glBindVertexArray(g5, r.m_quad_mesh[1].m_vao[1]), vbo)
        g7 == InstanceAttribs(g6, 0)
        g8 == glDrawArraysInstanced(g7, 0, 6, ib.instance_count)
        g9 == Renderer_cleanup_state(g8)
    IN [gl |-> g9, r |-> [r EXCEPT !.m_instance_buffer = <<ib>>],
        err |-> err, stderr |-> Renderer_report_error(err)]

\* render_scene without the empty-scene test.
Renderer_render_scene_NoEarlyReturn(g, r, gaussians, view, projection, err) ==
    Renderer_draw_scene(g, r, gaussians, view, projection, err)

\* Renderer::render_scene: an empty scene returns at once.
Renderer_render_scene(g, r, gaussians, view, projection, err) ==
    IF gaussians = <<>> THEN [gl |-> g, r |-> r, err |-> 0, stderr |-> <<>>]
    ELSE Renderer_draw_scene(g, r, gaussians, view, projection, err)

\* Renderer::~Renderer: the body, then the members in reverse order.
Renderer_destroy(g, r) ==
    LET g1 == IF r.m_program # 0 THEN glDeleteProgram(g, r.m_program) ELSE g
        g2 == InstanceBuffer_destroy(g1, r.m_instance_buffer)
    IN QuadMesh_destroy(g2, r.m_quad_mesh)

-----------------------------------------------------------------------------
(* GLFW, as App.cpp drives it: the library, its one window, the cursor mode  *)
(* of the window, and the errors it reported to glfw_error_cb.               *)

GLFWStart == [initialized |-> FALSE, window |-> "none", cursor |-> "NORMAL", errors |-> <<>>]

\* The library with the window and context of a program that is running.
GLFWRunning == [initialized |-> TRUE, window |-> "live", cursor |-> "NORMAL", errors |-> <<>>]

glfwInit(f) == [f EXCEPT !.initialized = TRUE]

glfwCreateWindow(f) == [f EXCEPT !.window = "live", !.cursor = "NORMAL"]

\* Called on a library that is not initialised, glfwDestroyWindow reports
\* GLFW_NOT_INITIALIZED and does nothing else.
glfwDestroyWindow(f) ==
    IF ~f.initialized THEN [f EXCEPT !.errors = Append(@, "GLFW_NOT_INITIALIZED")]
    ELSE [f EXCEPT !.window = "destroyed"]

\* glfwTerminate destroys the windows that are left; it does nothing on a
\* library that is not initialised.
glfwTerminate(f) ==
    IF ~f.initialized THEN f
    ELSE [f EXCEPT !.initialized = FALSE,
                   !.window = IF @ = "live" THEN "destroyed" ELSE @]

\* glfwSetInputMode(m_window, GLFW_CURSOR, mode)
glfwSetInputMode(f, mode) == [f EXCEPT !.cursor = mode]

-----------------------------------------------------------------------------
(* DebugUI.cpp *)

\* DebugUI::end_frame: ImGui_ImplOpenGL3_RenderDrawData draws the overlay under
\* its own state and puts back the state it found.
DebugUI_end_frame(g) ==
    [g EXCEPT !.color = "drawn",
              !.log = Append(@, [call |-> "ImGui_ImplOpenGL3_RenderDrawData",
                                 state |-> GLState(g)])]

-----------------------------------------------------------------------------
(* Camera.hpp, camera.cpp.  Angles are in tenths of a degree, positions and  *)
(* unit vectors in thousandths, times in milliseconds.                       *)

\* Camera::Camera: position (0, 0.5, 4), pitch 0, yaw -90.
Camera_new == [position |-> <<0, 500, 4000>>, pitch |-> 0, yaw |-> -900]

\* Camera(): sensitivity 0.1 degree per pixel, one tenth of a degree; speed 2.5
\* in tenths.
sensitivity == 1
speed == 25

\* The pitch limit of on_mouse_move, 89 degrees.
pitchLimit == 890

\* 1000 * sin(d degrees) for d = 0..90.
SinTable ==
    << 0, 17, 35, 52, 70, 87, 105, 122, 139, 156, 174, 191, 208,
       225, 242, 259, 276, 292, 309, 326, 342, 358, 375, 391, 407, 423,
       438, 454, 469, 485, 500, 515, 530, 545, 559, 574, 588, 602, 616,
       629, 643, 656, 669, 682, 695, 707, 719, 731, 743, 755, 766, 777,
       788, 799, 809, 819, 829, 839, 848, 857, 866, 875, 883, 891, 899,
       906, 914, 921, 927, 934, 940, 946, 951, 956, 961, 966, 970, 974,
       978, 982, 985, 988, 990, 993, 995, 996, 998, 999, 999, 1000, 1000 >>

\* sin and cos (in thousandths) of an angle in tenths of a degree, read at the
\* whole degree.
Sin(angle) ==
    LET a == (angle \div 10) % 360
    IN IF a <= 90 THEN SinTable[a + 1]
       ELSE IF a <= 180 THEN SinTable[180 - a + 1]
       ELSE IF a <= 270 THEN -SinTable[a - 180 + 1]
       ELSE -SinTable[360 - a + 1]
Cos(angle) == Sin(angle + 900)

\* The integer square root, by bisection of lo..hi.
RECURSIVE ISqrtIn(_, _, _)
ISqrtIn(n, lo, hi) ==
    IF lo >= hi THEN lo
    ELSE LET mid == (lo + hi + 1) \div 2
         IN IF mid * mid <= n THEN ISqrtIn(n, mid, hi) ELSE ISqrtIn(n, lo, mid - 1)

\* glm::length and glm::normalize of a vector in thousandths; the zero vector
\* has no direction (glm yields NaN), modelled by the zero vector.
glm_length(v) == ISqrtIn(v[1] * v[1] + v[2] * v[2] + v[3] * v[3], 0, 2000)
glm_normalize(v) ==
    LET len == glm_length(v)
    IN IF len = 0 THEN <<0, 0, 0>>
       ELSE <<(v[1] * 1000) \div len, (v[2] * 1000) \div len, (v[3] * 1000) \div len>>

\* glm::cross of two vectors in thousandths
glm_cross(a, b) ==
    <<(a[2] * b[3] - a[3] * b[2]) \div 1000,
      (a[3] * b[1] - a[1] * b[3]) \div 1000,
      (a[1] * b[2] - a[2] * b[1]) \div 1000>>

\* The world up axis of Camera::right.
worldUp == <<0, 1000, 0>>

\* Camera::forward, Camera::right, Camera::up
Camera_forward(cam) ==
    glm_normalize(<<(Cos(cam.yaw) * Cos(cam.pitch)) \div 1000,
                    Sin(cam.pitch),
                    (Sin(cam.yaw) * Cos(cam.pitch)) \div 1000>>)
Camera_right(cam) == glm_normalize(glm_cross(Camera_forward(cam), worldUp))
Camera_up(cam) == glm_normalize(glm_cross(Camera_right(cam), Camera_forward(cam)))

\* on_mouse_move with the pitch limited to 90 degrees.
Camera_on_mouse_move_ClampsAtNinety(cam, dx, dy) ==
    [cam EXCEPT !.yaw = @ + dx * sensitivity,
                !.pitch = Min(Max(@ - dy * sensitivity, -900), 900)]

\* Camera::on_mouse_move(dx, dy), dx and dy in pixels
Camera_on_mouse_move(cam, dx, dy) ==
    [cam EXCEPT !.yaw = @ + dx * sensitivity,
                !.pitch = Min(Max(@ - dy * sensitivity, -pitchLimit), pitchLimit)]

\* v * k for a vector in thousandths and a scalar in thousandths
Scaled(v, k) == <<(v[1] * k) \div 1000, (v[2] * k) \div 1000, (v[3] * k) \div 1000>>
Plus(a, b) == <<a[1] + b[1], a[2] + b[2], a[3] + b[3]>>
Minus(a, b) == <<a[1] - b[1], a[2] - b[2], a[3] - b[3]>>

\* Camera::on_keyboard(W, A, S, D, Q, E, dt): keys is the set of keys held.
Camera_on_keyboard(cam, keys, dt) ==
    LET velocity == (speed * dt) \div 10
        f == Scaled(Camera_forward(cam), velocity)
        r == Scaled(Camera_right(cam), velocity)
        u == Scaled(Camera_up(cam), velocity)
        p1 == IF "W" \in keys THEN Plus(cam.position, f) ELSE cam.position
        p2 == IF "S" \in keys THEN Minus(p1, f) ELSE p1
        p3 == IF "A" \in keys THEN Minus(p2, r) ELSE p2
        p4 == IF "D" \in keys THEN Plus(p3, r) ELSE p3
        p5 == IF "Q" \in keys THEN Minus(p4, u) ELSE p4
        p6 == IF "E" \in keys THEN Plus(p5, u) ELSE p5
    IN [cam EXCEPT !.position = p6]

-----------------------------------------------------------------------------
(* Inputs *)

\* View matrices the camera can yield, framebuffer sizes the window can report.
Views == { <<1, 1>>, <<1, 2>> }

\* Camera::projection(aspect): the perspective matrix of that aspect ratio.
Camera_projection(aspect) == <<2, aspect>>
FramebufferSizes == { <<1280, 720>>, <<640, 0>> }

NoStage == [kind |-> "none"]

\* What `call` holds: the Renderer method called by the latest step, the
\* number of records it was given (render_scene), the size it was given and
\* what the driver answered with which info log (init), and what glGetError
\* answered and what the call printed on stderr (render_scene).
NoCall ==
    [op |-> "none", n |-> 0, width |-> 0, height |-> 0, drv |-> "ok", log |-> "",
     err |-> 0, stderr |-> <<>>]
CallOf(op, n) == [NoCall EXCEPT !.op = op, !.n = n]
InitCall(width, height, drv, log) ==
    [NoCall EXCEPT !.op = "init", !.width = width, !.height = height, !.drv = drv, !.log = log]
RenderCall(n, res) ==
    [NoCall EXCEPT !.op = "render_scene", !.n = n, !.err = res.err, !.stderr = res.stderr]

\* The GL log starts afresh at every step.
Fresh(g) == [g EXCEPT !.log = <<>>]

-----------------------------------------------------------------------------
(* App.cpp, main.cpp: the program *)

Init ==
    /\ pc = "main"
    /\ gl = GLInit
    /\ m_window = 0
    /\ m_renderer = Null
    /\ m_scene = Null
    /\ m_scene_path = NoPath
    /\ m_camera = Null
    /\ m_debug_ui = Null
    /\ frame = 0
    /\ closeFlag = FALSE
    /\ thrown = Null
    /\ call = NoCall
    /\ stage = NoStage
    /\ glfw = GLFWStart
    /\ trace = <<>>
    /\ m_mouse_captured = FALSE
    /\ m_last_mouse = <<0, 0>>

\* main: where it goes after app.init returned, after app.load_scene returned
\* (it calls shutdown before returning 1), and after app.run returned.  The
\* destructor of app runs at every return.
main_after_init(ret) == IF ret THEN "load_scene" ELSE "destructor_1"
main_after_load_scene_RunsAnyway(ret) == "run"
main_after_load_scene(ret) == IF ret THEN "run" ELSE "shutdown_1"
main_after_run == "shutdown_0"

\* The steps of App::init that can make it return false.
InitFailures == {"glfwInit", "glfwCreateWindow", "gladLoadGLLoader"}

\* App::init returning false at the step `failing`: [glfw, m_window, calls].
\* After glfwCreateWindow fails m_window is null; after gladLoadGLLoader fails
\* the window is destroyed and m_window keeps pointing at it.
App_init_failure(f, failing) ==
    IF failing = "glfwInit"
    THEN [glfw |-> f, m_window |-> 0, calls |-> <<"App::init", "glfwInit">>]
    ELSE IF failing = "glfwCreateWindow"
    THEN [glfw |-> glfwTerminate(glfwInit(f)), m_window |-> 0,
          calls |-> <<"App::init", "glfwInit", "glfwCreateWindow", "glfwTerminate">>]
    ELSE [glfw |-> glfwTerminate(glfwDestroyWindow(glfwCreateWindow(glfwInit(f)))),
          m_window |-> 1,
          calls |-> <<"App::init", "glfwInit", "glfwCreateWindow", "gladLoadGLLoader",
                      "glfwDestroyWindow", "glfwTerminate">>]

\* The calls of App::init past gladLoadGLLoader: DebugUI::init is reached
\* when Renderer::init has not thrown.
App_init_calls(threw) ==
    <<"App::init", "glfwInit", "glfwCreateWindow", "gladLoadGLLoader", "Time::init",
      "Renderer::init">> \o (IF threw THEN <<>> ELSE <<"DebugUI::init">>)

\* App::init fails before the subsystems exist (glfwInit, glfwCreateWindow or
\* gladLoadGLLoader): it returns false with m_window as it is at that point, and
\* main returns 1.
App_init_fails ==
    /\ pc = "main"
    /\ \E failing \in InitFailures :
         LET res == App_init_failure(glfw, failing)
         IN /\ glfw' = res.glfw
            /\ m_window' = res.m_window
            /\ trace' = trace \o res.calls
    /\ pc' = main_after_init(FALSE)
    /\ UNCHANGED <<gl, m_renderer, m_scene, m_scene_path, m_camera, m_debug_ui, frame, closeFlag, thrown, stage>>
    /\ UNCHANGED mouseVars
    /\ call' = NoCall

\* App::init with a window and a context: the subsystems are created and the
\* renderer initialised.  An exception of Renderer::init leaves App::init and
\* main, which catches nothing.
App_init ==
    /\ pc = "main"
    /\ \E drv \in DriverOutcomes, log \in InfoLogs :
         LET res == Renderer_init(GLInit, Renderer_new, 1280, 720, drv, log)
         IN /\ gl' = res.gl
            /\ m_renderer' = <<res.r>>
            /\ thrown' = res.thrown
            /\ call' = InitCall(1280, 720, drv, log)
            /\ trace' = trace \o App_init_calls(res.thrown # Null)
            /\ IF res.thrown # Null
               THEN pc' = "terminated" /\ m_debug_ui' = Null
               ELSE pc' = main_after_init(TRUE) /\ m_debug_ui' = <<"DebugUI">>
    /\ glfw' = glfwCreateWindow(glfwInit(glfw))
    /\ m_window' = 1
    /\ m_camera' = << <<1, 1>> >>
    /\ m_scene' = <<<<>>>>
    /\ UNCHANGED <<m_scene_path, frame, closeFlag, stage>>
    /\ UNCHANGED mouseVars

\* app.load_scene(scene_path) returns true: the scene is the file's.
App_load_scene ==
    /\ pc = "load_scene"
    /\ \E filepath \in Paths :
         LET res == App_load_scene_call(m_scene[1], m_scene_path, filepath)
         IN /\ res.ret
            /\ m_scene' = <<res.scene>>
            /\ m_scene_path' = res.scene_path
            /\ pc' = main_after_load_scene(res.ret)
    /\ trace' = Append(trace, "App::load_scene")
    /\ UNCHANGED <<gl, m_window, m_renderer, m_camera, m_debug_ui, frame, closeFlag, thrown, stage>>
    /\ UNCHANGED <<glfw, m_mouse_captured, m_last_mouse>>
    /\ call' = NoCall

\* App::load_scene fails: the scene stays, main calls shutdown and returns 1.
App_load_scene_fails ==
    /\ pc = "load_scene"
    /\ \E filepath \in Paths :
         LET res == App_load_scene_call(m_scene[1], m_scene_path, filepath)
         IN /\ ~res.ret
            /\ m_scene' = <<res.scene>>
            /\ m_scene_path' = res.scene_path
            /\ pc' = main_after_load_scene(res.ret)
    /\ trace' = Append(trace, "App::load_scene")
    /\ UNCHANGED <<gl, m_window, m_renderer, m_camera, m_debug_ui, frame, closeFlag, thrown, stage>>
    /\ UNCHANGED <<glfw, m_mouse_captured, m_last_mouse>>
    /\ call' = NoCall

\* handle_input calling on_mouse_move whether the mouse is captured or not.
App_handle_input_AlwaysLooks(captured, last, f, cam, button, cursor, keys, dt) ==
    LET pressed == button = "PRESS"
        begins == pressed /\ ~captured
        ends == ~pressed /\ captured
        last1 == IF begins THEN cursor ELSE last
        delta == <<cursor[1] - last1[1], cursor[2] - last1[2]>>
    IN [m_mouse_captured |-> pressed,
        glfw |-> IF begins THEN glfwSetInputMode(f, "DISABLED")
                 ELSE IF ends THEN glfwSetInputMode(f, "NORMAL") ELSE f,
        m_last_mouse |-> cursor,
        delta |-> <<delta>>,
        camera |-> Camera_on_keyboard(Camera_on_mouse_move(cam, delta[1], delta[2]), keys, dt)]

\* handle_input without the glfwGetCursorPos of the frame in which capture begins.
App_handle_input_NoResample(captured, last, f, cam, button, cursor, keys, dt) ==
    LET pressed == button = "PRESS"
        begins == pressed /\ ~captured
        ends == ~pressed /\ captured
        delta == <<cursor[1] - last[1], cursor[2] - last[2]>>
        cam1 == IF pressed THEN Camera_on_mouse_move(cam, delta[1], delta[2]) ELSE cam
    IN [m_mouse_captured |-> pressed,
        glfw |-> IF begins THEN glfwSetInputMode(f, "DISABLED")
                 ELSE IF ends THEN glfwSetInputMode(f, "NORMAL") ELSE f,
        m_last_mouse |-> IF pressed THEN cursor ELSE last,
        delta |-> IF pressed THEN <<delta>> ELSE <<>>,
        camera |-> Camera_on_keyboard(cam1, keys, dt)]

\* App::handle_input with the members and the library as given, button being
\* what glfwGetMouseButton answers, cursor what glfwGetCursorPos answers during
\* the call (the position changes only in glfwPollEvents), keys the keys
\* glfwGetKey finds pressed, dt Time::delta_time():
\* [m_mouse_captured, glfw, m_last_mouse, delta, camera], delta being the
\* arguments of on_mouse_move when it is called.
App_handle_input(captured, last, f, cam, button, cursor, keys, dt) ==
    LET pressed == button = "PRESS"
        begins == pressed /\ ~captured
        ends == ~pressed /\ captured
        \* "RMB mouse capture"
        captured1 == IF begins THEN TRUE ELSE IF ends THEN FALSE ELSE captured
        f1 == IF begins THEN glfwSetInputMode(f, "DISABLED")
              ELSE IF ends THEN glfwSetInputMode(f, "NORMAL") ELSE f
        last1 == IF begins THEN cursor ELSE last
        \* "Mouse look"
        delta == <<cursor[1] - last1[1], cursor[2] - last1[2]>>
        cam1 == IF captured1 THEN Camera_on_mouse_move(cam, delta[1], delta[2]) ELSE cam
    IN [m_mouse_captured |-> captured1,
        glfw |-> f1,
        m_last_mouse |-> IF captured1 THEN cursor ELSE last1,
        delta |-> IF captured1 THEN <<delta>> ELSE <<>>,
        \* "Keyboard movement"
        camera |-> Camera_on_keyboard(cam1, keys, dt)]

\* App::should_close
App_should_close(window, flag) == window # 0 /\ flag

\* App::run, the loop test: should_close().
App_run_test ==
    /\ pc = "run"
    /\ pc' = IF App_should_close(m_window, closeFlag) THEN main_after_run ELSE "poll"
    /\ trace' = Append(trace, "App::should_close")
    /\ UNCHANGED <<gl, m_window, m_renderer, m_scene, m_scene_path, m_camera, m_debug_ui, frame, closeFlag, thrown, stage>>
    /\ UNCHANGED <<glfw, m_mouse_captured, m_last_mouse>>
    /\ call' = NoCall

\* glfwPollEvents and Time::tick: the user may have closed the window, and has
\* done so by frame MaxFrames.
App_run_poll ==
    /\ pc = "poll"
    /\ \E c \in BOOLEAN : closeFlag' = (closeFlag \/ c \/ frame + 1 >= MaxFrames)
    /\ frame' = frame + 1
    /\ pc' = "viewport"
    /\ trace' = trace \o <<"glfwPollEvents", "Time::tick">>
    /\ UNCHANGED <<gl, m_window, m_renderer, m_scene, m_scene_path, m_camera, m_debug_ui, thrown, stage>>
    /\ UNCHANGED <<glfw, m_mouse_captured, m_last_mouse>>
    /\ call' = NoCall

\* "Update viewport": glfwGetFramebufferSize and m_renderer->init(fbw, fbh).
App_run_viewport ==
    /\ pc = "viewport"
    /\ \E fb \in FramebufferSizes, drv \in DriverOutcomes, log \in InfoLogs :
         LET res == Renderer_init(Fresh(gl), m_renderer[1], fb[1], fb[2], drv, log)
         IN /\ gl' = res.gl
            /\ m_renderer' = <<res.r>>
            /\ thrown' = res.thrown
            /\ pc' = IF res.thrown # Null THEN "terminated" ELSE "input"
            /\ call' = InitCall(fb[1], fb[2], drv, log)
    /\ trace' = trace \o <<"glfwGetFramebufferSize", "Renderer::init">>
    /\ UNCHANGED <<m_window, m_scene, m_scene_path, m_camera, m_debug_ui, frame, closeFlag, stage>>
    /\ UNCHANGED <<glfw, m_mouse_captured, m_last_mouse>>

\* handle_input and update: the camera moves to any view.
App_run_input ==
    /\ pc = "input"
    /\ \E v \in Views : m_camera' = <<v>>
    /\ pc' = "begin_frame"
    /\ trace' = trace \o <<"App::handle_input", "App::update">>
    /\ UNCHANGED <<gl, m_window, m_renderer, m_scene, m_scene_path, m_debug_ui, frame, closeFlag, thrown, stage>>
    /\ UNCHANGED <<glfw, m_mouse_captured, m_last_mouse>>
    /\ call' = NoCall

\* App::render: m_renderer->begin_frame()
App_render_begin_frame ==
    /\ pc = "begin_frame"
    /\ gl' = Renderer_begin_frame(Fresh(gl), m_renderer[1])
    /\ pc' = "render_scene"
    /\ call' = CallOf("begin_frame", 0)
    /\ trace' = Append(trace, "Renderer::begin_frame")
    /\ UNCHANGED <<m_window, m_renderer, m_scene, m_scene_path, m_camera, m_debug_ui, frame, closeFlag, thrown, stage>>
    /\ UNCHANGED <<glfw, m_mouse_captured, m_last_mouse>>

\* App::render: m_renderer->render_scene(*m_scene, m_camera->view(),
\* m_camera->projection(m_renderer->aspect_ratio()))
App_render_scene ==
    /\ pc = "render_scene"
    /\ \E err \in GLErrors :
         LET r == m_renderer[1]
             res == Renderer_render_scene(Fresh(gl), r, m_scene[1], m_camera[1],
                                          Camera_projection(Renderer_aspect_ratio(r)), err)
         IN /\ gl' = res.gl /\ m_renderer' = <<res.r>>
            /\ call' = RenderCall(Len(m_scene[1]), res)
    /\ pc' = "overlay"
    /\ trace' = Append(trace, "Renderer::render_scene")
    /\ UNCHANGED <<m_window, m_scene, m_scene_path, m_camera, m_debug_ui, frame, closeFlag, thrown, stage>>
    /\ UNCHANGED <<glfw, m_mouse_captured, m_last_mouse>>

\* The overlay with end_frame called before the overlay is built.
App_render_overlay_calls_EndsEarly ==
    <<"DebugUI::begin_frame", "DebugUI::end_frame", "DebugUI::render_debug_overlay">>

\* App::render, "UI overlay": the calls on m_debug_ui.
App_render_overlay_calls ==
    <<"DebugUI::begin_frame", "DebugUI::render_debug_overlay", "DebugUI::end_frame">>

\* App::render: the debug overlay (begin_frame, render_debug_overlay, end_frame).
App_render_overlay ==
    /\ pc = "overlay"
    /\ gl' = DebugUI_end_frame(Fresh(gl))
    /\ pc' = "swap"
    /\ trace' = trace \o App_render_overlay_calls
    /\ UNCHANGED <<m_window, m_renderer, m_scene, m_scene_path, m_camera, m_debug_ui, frame, closeFlag, thrown, stage>>
    /\ UNCHANGED <<glfw, m_mouse_captured, m_last_mouse>>
    /\ call' = NoCall

\* glfwSwapBuffers
App_run_swap ==
    /\ pc = "swap"
    /\ pc' = "run"
    /\ trace' = Append(trace, "glfwSwapBuffers")
    /\ UNCHANGED <<gl, m_window, m_renderer, m_scene, m_scene_path, m_camera, m_debug_ui, frame, closeFlag, thrown, stage>>
    /\ UNCHANGED <<glfw, m_mouse_captured, m_last_mouse>>
    /\ call' = NoCall

\* App::shutdown on the library f with the members as given: [glfw, calls].
App_shutdown_call(f, debug_ui, renderer, window) ==
    [glfw |-> glfwTerminate(IF window # 0 THEN glfwDestroyWindow(f) ELSE f),
     calls |-> <<"App::shutdown">>
               \o (IF debug_ui # Null THEN <<"DebugUI::shutdown">> ELSE <<>>)
               \o (IF renderer # Null THEN <<"Renderer::~Renderer">> ELSE <<>>)
               \o (IF window # 0 THEN <<"glfwDestroyWindow">> ELSE <<>>)
               \o <<"glfwTerminate">>]

\* App::shutdown, called by main (after run, or after a failed load) and then
\* by App::~App: the renderer goes while the context exists, then the window
\* and its context (gl keeps the state the context ended in).
App_shutdown ==
    /\ pc \in {"shutdown_0", "shutdown_1", "destructor_0", "destructor_1"}
    /\ gl' = IF m_renderer = Null THEN Fresh(gl) ELSE Renderer_destroy(Fresh(gl), m_renderer[1])
    /\ LET res == App_shutdown_call(glfw, m_debug_ui, m_renderer, m_window)
       IN /\ glfw' = res.glfw
          /\ trace' = trace \o res.calls
    /\ m_renderer' = Null
    /\ m_scene' = Null
    /\ m_camera' = Null
    /\ m_debug_ui' = Null
    /\ m_window' = 0
    /\ pc' = CASE pc = "shutdown_0" -> "destructor_0"
              [] pc = "shutdown_1" -> "destructor_1"
              [] pc = "destructor_0" -> "exit_0"
              [] pc = "destructor_1" -> "exit_1"
    /\ call' = IF m_renderer = Null THEN NoCall ELSE CallOf("destroy", 0)
    /\ UNCHANGED <<m_scene_path, frame, closeFlag, thrown, stage>>
    /\ UNCHANGED mouseVars

Next ==
    \/ App_init_fails
    \/ App_init
    \/ App_load_scene
    \/ App_load_scene_fails
    \/ App_run_test
    \/ App_run_poll
    \/ App_run_viewport
    \/ App_run_input
    \/ App_render_begin_frame
    \/ App_render_scene
    \/ App_render_overlay
    \/ App_run_swap
    \/ App_shutdown

Spec == Init /\ [][Next]_vars

-----------------------------------------------------------------------------
(* The Renderer under any client: every order of calls the class allows,    *)
(* on one context that outlives the Renderer.  It starts constructed and    *)
(* initialised: Renderer r; r.init(1280, 720).                              *)

ClientStart == Renderer_init(GLInit, Renderer_new, 1280, 720, "ok", "")

InitClient ==
    /\ pc = "client"
    /\ gl = ClientStart.gl
    /\ m_window = 1
    /\ m_renderer = <<ClientStart.r>>
    /\ m_scene = <<<<>>>>
    /\ m_scene_path = NoPath
    /\ m_camera = << <<1, 1>> >>
    /\ m_debug_ui = Null
    /\ frame = 0
    /\ closeFlag = FALSE
    /\ thrown = Null
    /\ call = NoCall
    /\ stage = NoStage
    /\ glfw = GLFWRunning
    /\ trace = <<>>
    /\ m_mouse_captured = FALSE
    /\ m_last_mouse = <<0, 0>>

\* renderer.init(width, height); the client catches what it throws.
Client_init ==
    /\ pc = "client" /\ frame < MaxCalls
    /\ \E fb \in FramebufferSizes, drv \in DriverOutcomes, log \in InfoLogs :
         LET res == Renderer_init(Fresh(gl), m_renderer[1], fb[1], fb[2], drv, log)
         IN /\ gl' = res.gl /\ m_renderer' = <<res.r>> /\ thrown' = res.thrown
            /\ call' = InitCall(fb[1], fb[2], drv, log)
    /\ frame' = frame + 1
    /\ UNCHANGED <<pc, m_window, m_scene, m_scene_path, m_camera, m_debug_ui, closeFlag, stage>>
    /\ UNCHANGED appVars

\* Other code of the context (an overlay, a previous pass) leaves its blend
\* and depth state behind: blending on and depth writes off.
Client_gl_state ==
    /\ pc = "client" /\ call.op # "none"
    /\ gl' = [Fresh(gl) EXCEPT !.blend = TRUE, !.depthMask = FALSE]
    /\ call' = NoCall /\ thrown' = Null
    /\ UNCHANGED <<pc, m_window, m_renderer, m_scene, m_scene_path, m_camera, m_debug_ui, frame, closeFlag, stage>>
    /\ UNCHANGED appVars

\* renderer.render_scene(scene, view, projection), once init has succeeded;
\* m_scene and m_camera keep the arguments.
Client_render_scene ==
    /\ pc = "client" /\ frame < MaxCalls
    /\ m_renderer[1].m_quad_mesh # Null
    /\ \E scene \in Scenes, view \in { <<1, 2>> }, err \in GLErrors :
         LET res == Renderer_render_scene(Fresh(gl), m_renderer[1], scene, view,
                                          Camera_projection(1000), err)
         IN /\ gl' = res.gl /\ m_renderer' = <<res.r>>
            /\ m_scene' = <<scene>> /\ m_camera' = <<view>>
            /\ call' = RenderCall(Len(scene), res)
    /\ thrown' = Null
    /\ frame' = frame + 1
    /\ UNCHANGED <<pc, m_scene_path, m_window, m_debug_ui, closeFlag, stage>>
    /\ UNCHANGED appVars

\* The Renderer goes out of scope.
Client_destroy ==
    /\ pc = "client"
    /\ gl' = Renderer_destroy(Fresh(gl), m_renderer[1])
    /\ call' = CallOf("destroy", 0)
    /\ m_renderer' = Null
    /\ thrown' = Null
    /\ pc' = "destroyed"
    /\ UNCHANGED <<m_window, m_scene, m_scene_path, m_camera, m_debug_ui, frame, closeFlag, stage>>
    /\ UNCHANGED appVars

NextClient ==
    \/ Client_init
    \/ Client_gl_state
    \/ Client_render_scene
    \/ Client_destroy

SpecClient == InitClient /\ [][NextClient]_vars

-----------------------------------------------------------------------------
(* The Scene under its owner: after App::init, any sequence of              *)
(* App::load_scene calls and of set_gaussians, add_gaussian and clear on    *)
(* the Scene.                                                               *)

\* What `call` holds here: the operation, the path given to load_scene and
\* what it returned and printed, the argument of set_gaussians (the records)
\* or add_gaussian (<<record>>).
SceneCall(op, filepath, ret, arg, stderr) ==
    [op |-> op, n |-> Len(arg), width |-> 0, height |-> 0, drv |-> "ok", log |-> "",
     err |-> 0, stderr |-> stderr,
     filepath |-> filepath, ret |-> ret, arg |-> arg]

InitScene ==
    /\ pc = "scene"
    /\ gl = GLInit
    /\ m_window = 1
    /\ m_renderer = Null
    /\ m_scene = <<<<>>>>
    /\ m_scene_path = NoPath
    /\ m_camera = Null
    /\ m_debug_ui = Null
    /\ frame = 0
    /\ closeFlag = FALSE
    /\ thrown = Null
    /\ call = NoCall
    /\ stage = NoStage
    /\ glfw = GLFWRunning
    /\ trace = <<>>
    /\ m_mouse_captured = FALSE
    /\ m_last_mouse = <<0, 0>>

\* app.load_scene(filepath)
Owner_load_scene ==
    /\ pc = "scene" /\ frame < MaxCalls
    /\ \E filepath \in Paths :
         LET res == App_load_scene_call(m_scene[1], m_scene_path, filepath)
         IN /\ m_scene' = <<res.scene>>
            /\ m_scene_path' = res.scene_path
            /\ call' = SceneCall("load_scene", filepath, res.ret, <<>>, res.stderr)
    /\ frame' = frame + 1
    /\ UNCHANGED <<pc, gl, m_window, m_renderer, m_camera, m_debug_ui, closeFlag, thrown, stage>>
    /\ UNCHANGED appVars

\* scene.set_gaussians(gaussians)
Owner_set_gaussians ==
    /\ pc = "scene" /\ frame < MaxCalls
    /\ \E gaussians \in Scenes :
         /\ m_scene' = <<Scene_set_gaussians(m_scene[1], gaussians)>>
         /\ call' = SceneCall("set_gaussians", NoPath, TRUE, gaussians, <<>>)
    /\ frame' = frame + 1
    /\ UNCHANGED <<pc, gl, m_window, m_renderer, m_scene_path, m_camera, m_debug_ui,
                   closeFlag, thrown, stage>>
    /\ UNCHANGED appVars

\* scene.add_gaussian(gaussian)
Owner_add_gaussian ==
    /\ pc = "scene" /\ frame < MaxCalls
    /\ \E gaussian \in GaussianSamples :
         /\ m_scene' = <<Scene_add_gaussian(m_scene[1], gaussian)>>
         /\ call' = SceneCall("add_gaussian", NoPath, TRUE, <<gaussian>>, <<>>)
    /\ frame' = frame + 1
    /\ UNCHANGED <<pc, gl, m_window, m_renderer, m_scene_path, m_camera, m_debug_ui,
                   closeFlag, thrown, stage>>
    /\ UNCHANGED appVars

\* scene.clear()
Owner_clear ==
    /\ pc = "scene" /\ frame < MaxCalls
    /\ m_scene' = <<Scene_clear(m_scene[1])>>
    /\ call' = SceneCall("clear", NoPath, TRUE, <<>>, <<>>)
    /\ frame' = frame + 1
    /\ UNCHANGED <<pc, gl, m_window, m_renderer, m_scene_path, m_camera, m_debug_ui,
                   closeFlag, thrown, stage>>
    /\ UNCHANGED appVars

NextScene ==
    \/ Owner_load_scene
    \/ Owner_set_gaussians
    \/ Owner_add_gaussian
    \/ Owner_clear

SpecScene == InitScene /\ [][NextScene]_vars

-----------------------------------------------------------------------------
(* The input handling of App, frame after frame: after App::init, any       *)
(* sequence of App::handle_input calls under any input.                     *)

\* What the window reports in a frame: the right mouse button, the cursor
\* position in pixels, the keys held, and the time since the last frame (ms).
Buttons == {"PRESS", "RELEASE"}
CursorPositions == { <<0, 0>>, <<450, -300>>, <<-900, 1000>> }
KeySets == { {}, {"W"}, {"S", "A"}, {"D", "Q"}, {"E"} }
DeltaTimes == {16, 400}

\* What `call` holds here: the inputs of the call, and the mouse delta the
\* camera was given (<<>> when on_mouse_move was not called).
InputCall(op, button, cursor, keys, dt, delta) ==
    [op |-> op, n |-> 0, width |-> 0, height |-> 0, drv |-> "ok", log |-> "",
     err |-> 0, stderr |-> <<>>,
     button |-> button, cursor |-> cursor, keys |-> keys, dt |-> dt, delta |-> delta]

InitInput ==
    /\ pc = "handle_input"
    /\ gl = GLInit
    /\ m_window = 1
    /\ m_renderer = Null
    /\ m_scene = <<<<>>>>
    /\ m_scene_path = NoPath
    /\ m_camera = <<Camera_new>>
    /\ m_debug_ui = Null
    /\ frame = 0
    /\ closeFlag = FALSE
    /\ thrown = Null
    /\ call = NoCall
    /\ stage = NoStage
    /\ glfw = GLFWRunning
    /\ trace = <<>>
    /\ m_mouse_captured = FALSE
    /\ m_last_mouse = <<0, 0>>

\* The handle_input() of one frame.
Frame_handle_input ==
    /\ pc = "handle_input" /\ frame < MaxCalls
    /\ \E button \in Buttons, cursor \in CursorPositions, keys \in KeySets, dt \in DeltaTimes :
         LET res == App_handle_input(m_mouse_captured, m_last_mouse, glfw, m_camera[1],
                                     button, cursor, keys, dt)
         IN /\ m_mouse_captured' = res.m_mouse_captured
            /\ m_last_mouse' = res.m_last_mouse
            /\ glfw' = res.glfw
            /\ m_camera' = <<res.camera>>
            /\ call' = InputCall("handle_input", button, cursor, keys, dt, res.delta)
    /\ frame' = frame + 1
    /\ UNCHANGED <<pc, gl, m_window, m_renderer, m_scene, m_scene_path, m_debug_ui,
                   closeFlag, thrown, stage, trace>>

NextInput == Frame_handle_input

SpecInput == InitInput /\ [][NextInput]_vars

-----------------------------------------------------------------------------
(* The Camera under any caller: any sequence of on_mouse_move and           *)
(* on_keyboard calls on a default camera.                                   *)

\* Mouse deltas in pixels.
MouseDeltas == {-2000, -450, 0, 300, 890, 900}

InitCamera ==
    /\ pc = "camera"
    /\ gl = GLInit
    /\ m_window = 0
    /\ m_renderer = Null
    /\ m_scene = Null
    /\ m_scene_path = NoPath
    /\ m_camera = <<Camera_new>>
    /\ m_debug_ui = Null
    /\ frame = 0
    /\ closeFlag = FALSE
    /\ thrown = Null
    /\ call = NoCall
    /\ stage = NoStage
    /\ glfw = GLFWStart
    /\ trace = <<>>
    /\ m_mouse_captured = FALSE
    /\ m_last_mouse = <<0, 0>>

\* camera.on_mouse_move(dx, dy)
Caller_on_mouse_move ==
    /\ pc = "camera" /\ frame < MaxCalls
    /\ \E dx \in MouseDeltas, dy \in MouseDeltas :
         /\ m_camera' = <<Camera_on_mouse_move(m_camera[1], dx, dy)>>
         /\ call' = InputCall("on_mouse_move", "RELEASE", <<0, 0>>, {}, 0, << <<dx, dy>> >>)
    /\ frame' = frame + 1
    /\ UNCHANGED <<pc, gl, m_window, m_renderer, m_scene, m_scene_path, m_debug_ui,
                   closeFlag, thrown, stage>>
    /\ UNCHANGED appVars

\* camera.on_keyboard(W, A, S, D, Q, E, dt)
Caller_on_keyboard ==
    /\ pc = "camera" /\ frame < MaxCalls
    /\ \E keys \in KeySets, dt \in DeltaTimes :
         /\ m_camera' = <<Camera_on_keyboard(m_camera[1], keys, dt)>>
         /\ call' = InputCall("on_keyboard", "RELEASE", <<0, 0>>, keys, dt, <<>>)
    /\ frame' = frame + 1
    /\ UNCHANGED <<pc, gl, m_window, m_renderer, m_scene, m_scene_path, m_debug_ui,
                   closeFlag, thrown, stage>>
    /\ UNCHANGED appVars

NextCamera ==
    \/ Caller_on_mouse_move
    \/ Caller_on_keyboard

SpecCamera == InitCamera /\ [][NextCamera]_vars

-----------------------------------------------------------------------------
(* SceneIO under a caller: a Scene is filled, saved with save_scene_json    *)
(* and read back from the file written with load_scene_json.                *)

InitSceneIO ==
    /\ pc = "sceneio"
    /\ gl = GLInit
    /\ m_window = 0
    /\ m_renderer = Null
    /\ m_scene = <<<<>>>>
    /\ m_scene_path = NoPath
    /\ m_camera = Null
    /\ m_debug_ui = Null
    /\ frame = 0
    /\ closeFlag = FALSE
    /\ thrown = Null
    /\ call = NoCall
    /\ stage = NoStage
    /\ glfw = GLFWStart
    /\ trace = <<>>
    /\ m_mouse_captured = FALSE
    /\ m_last_mouse = <<0, 0>>

\* scene.set_gaussians(gaussians)
IO_set_gaussians ==
    /\ pc = "sceneio" /\ frame < MaxCalls
    /\ \E gaussians \in Scenes :
         /\ m_scene' = <<Scene_set_gaussians(m_scene[1], gaussians)>>
         /\ call' = SceneCall("set_gaussians", NoPath, TRUE, gaussians, <<>>)
    /\ frame' = frame + 1
    /\ thrown' = Null
    /\ UNCHANGED <<pc, gl, m_window, m_renderer, m_scene_path, m_camera, m_debug_ui,
                   closeFlag, stage>>
    /\ UNCHANGED appVars

\* SceneIO::save_scene_json(filepath, scene); the caller catches what it throws.
IO_save_scene_json ==
    /\ pc = "sceneio"
    /\ \E writable \in BOOLEAN :
         LET res == save_scene_json(m_scene[1], writable)
         IN /\ call' = SceneCall("save_scene_json", res.filepath, res.thrown = Null, <<>>, <<>>)
            /\ thrown' = res.thrown
    /\ UNCHANGED <<pc, gl, m_window, m_renderer, m_scene, m_scene_path, m_camera, m_debug_ui,
                   frame, closeFlag, stage>>
    /\ UNCHANGED appVars

\* scene = SceneIO::load_scene_json(filepath) of the file just written.
IO_load_scene_json ==
    /\ pc = "sceneio"
    /\ call.op = "save_scene_json" /\ call.ret
    /\ LET res == load_scene_json(call.filepath)
       IN /\ m_scene' = IF res.thrown = Null THEN <<res.scene>> ELSE m_scene
          /\ thrown' = res.thrown
          /\ call' = SceneCall("load_scene_json", call.filepath, res.thrown = Null, <<>>, <<>>)
    /\ UNCHANGED <<pc, gl, m_window, m_renderer, m_scene_path, m_camera, m_debug_ui,
                   frame, closeFlag, stage>>
    /\ UNCHANGED appVars

NextSceneIO ==
    \/ IO_set_gaussians
    \/ IO_save_scene_json
    \/ IO_load_scene_json

SpecSceneIO == InitSceneIO /\ [][NextSceneIO]_vars

-----------------------------------------------------------------------------
(* The two shader stages of Renderer::create_shader_program.                *)
(* Units: positions, scales, opacities and colors in thousandths; r in      *)
(* tenths; z in thousandths; maxWorld and s in 1/100000; the billboard      *)
(* offsets in 1/1000000; t in sixteenths; alpha in 1/256000.                *)

eps == 30
rCap == 15
zNear == 100

\* 1000 * exp(k * k / 200) for k = 0..30: sqrt(2 ln x) >= k / 10 exactly when
\* x >= exp(k * k / 200).
ExpTable ==
    << 1000, 1005, 1020, 1046, 1083, 1133, 1197, 1278, 1377, 1499, 1649,
       1831, 2054, 2328, 2664, 3080, 3597, 4242, 5053, 6080, 7389, 9070,
       11246, 14083, 17814, 22760, 29371, 38283, 50400, 67021, 90017 >>

\* sqrt(max(2.0 * log(op / eps), 0.0)) in tenths, rounded down.
SqrtTwoLog(op) ==
    LET reached == { k \in 0..(Len(ExpTable) - 1) : op * 1000 >= eps * ExpTable[k + 1] }
    IN IF reached = {} THEN 0
       ELSE CHOOSE k \in reached : \A j \in reached : j <= k

\* r capped at 2.0 in place of 1.5.
Radius_CapTwo(vOpacity) == Min(SqrtTwoLog(Max(vOpacity, eps)), 20)

\* vs_src: op, r2, r
Radius(vOpacity) ==
    LET op == Max(vOpacity, eps)
        r == SqrtTwoLog(op)
    IN Min(r, rCap)

\* A view matrix: four rows of four, the rotation part in units, the
\* translation column in thousandths.
MatVec(m, v) == [i \in 1..4 |-> m[i][1] * v[1] + m[i][2] * v[2] + m[i][3] * v[3] + m[i][4] * v[4]]

\* z without the floor at 0.1.
Depth_NoFloor(uView, mean) ==
    -(uView[3][1] * mean[1] + uView[3][2] * mean[2] + uView[3][3] * mean[3] + uView[3][4])

\* vs_src: z = max(-(uView * vec4(mean, 1.0)).z, 0.1)
Depth(uView, mean) ==
    Max(-(uView[3][1] * mean[1] + uView[3][2] * mean[2] + uView[3][3] * mean[3] + uView[3][4]),
        zNear)

\* The scale passed on without the min.
ClampScale_NoClamp(scale, z) == <<scale[1] * 100, scale[2] * 100>>

\* vs_src: s = min(iScaleColorX.xy, vec2(maxWorld)) with maxWorld = 0.01 * z
ClampScale(scale, z) ==
    LET maxWorld == z
    IN <<Min(scale[1] * 100, maxWorld), Min(scale[2] * 100, maxWorld)>>

\* vs_src main(): the outputs, with the intermediate values the stage computes.
VertexMain(aQuadPos, inst, uView) ==
    LET vOpacity == inst.mean_opacity[4]
        mean == SubSeq(inst.mean_opacity, 1, 3)
        \* camR = transpose(mat3(uView)): its columns are the rows of uView
        right == SubSeq(uView[1], 1, 3)
        up == SubSeq(uView[2], 1, 3)
        r == Radius(vOpacity)
        z == Depth(uView, mean)
        s == ClampScale(inst.scale_colorx, z)
        dx == (aQuadPos[1] * s[1] * r) \div 1000
        dy == (aQuadPos[2] * s[2] * r) \div 1000
        worldPos == [i \in 1..3 |-> mean[i] * 1000 + right[i] * dx + up[i] * dy]
    IN [vLocalPos |-> aQuadPos,
        vColor |-> <<inst.scale_colorx[4], inst.coloryz_pad[1], inst.coloryz_pad[2]>>,
        vOpacity |-> vOpacity,
        r |-> r, z |-> z, maxWorld |-> z, s |-> s,
        offset |-> <<dx, dy>>, worldPos |-> worldPos]

Clamp(x, lo, hi) == Min(Max(x, lo), hi)

\* t without the clamp.
Falloff_NoClamp(vLocalPos) ==
    16 - (vLocalPos[1] * vLocalPos[1] + vLocalPos[2] * vLocalPos[2]) \div 62500

\* fs_src: t = clamp(1.0 - dot(vLocalPos, vLocalPos), 0.0, 1.0), in sixteenths
Falloff(vLocalPos) ==
    LET r2 == (vLocalPos[1] * vLocalPos[1] + vLocalPos[2] * vLocalPos[2]) \div 62500
    IN Clamp(16 - r2, 0, 16)

\* alpha falling off linearly in t.
Alpha_Linear(vOpacity, t) == vOpacity * t * 16

\* fs_src: alpha = vOpacity * t * t
Alpha(vOpacity, t) == vOpacity * t * t

\* fs_src: the literal of "if (alpha < 0.03) discard", in thousandths
alphaThreshold == 30

\* The fragment stage discarding at the threshold itself (alpha <= 0.03).
FragmentMain_DiscardsAtThreshold(vLocalPos, vColor, vOpacity) ==
    LET t == Falloff(vLocalPos)
        alpha == Alpha(vOpacity, t)
    IN IF alpha <= alphaThreshold * 256
       THEN [discard |-> TRUE, t |-> t, alpha |-> alpha, FragColor |-> <<0, 0, 0, 0>>]
       ELSE [discard |-> FALSE, t |-> t, alpha |-> alpha,
             FragColor |-> <<vColor[1] * alpha, vColor[2] * alpha, vColor[3] * alpha, alpha>>]

\* fs_src main(): discard, or FragColor = vec4(vColor * alpha, alpha).
FragmentMain(vLocalPos, vColor, vOpacity) ==
    LET t == Falloff(vLocalPos)
        alpha == Alpha(vOpacity, t)
    IN IF alpha < alphaThreshold * 256
       THEN [discard |-> TRUE, t |-> t, alpha |-> alpha, FragColor |-> <<0, 0, 0, 0>>]
       ELSE [discard |-> FALSE, t |-> t, alpha |-> alpha,
             FragColor |-> <<vColor[1] * alpha, vColor[2] * alpha, vColor[3] * alpha, alpha>>]

\* Renderer::begin_frame: glClearColor(0.1, 0.1, 0.1, 1.0), and the depth a
\* clear leaves (1.0), in thousandths.
ClearedPixel == [rgb |-> <<100, 100, 100>>, a |-> 1000, depth |-> 1000]

\* The blend factors of glBlendFunc, in 1/256000, for a source alpha a.
SrcFactor(g, a) == IF g.blendSrc = "SRC_ALPHA" THEN a ELSE 256000
DstFactor(g, a) == IF g.blendDst = "ONE_MINUS_SRC_ALPHA" THEN 256000 - a ELSE 0

\* What the GL does with one fragment of depth d arriving at the pixel dst
\* under the state g: a discarded fragment and one failing the depth test
\* (GL_LESS) leave the pixel alone; the others are blended (source and result
\* clamped to [0,1], the color buffer being fixed-point), and write their
\* depth only when depth writes are enabled.
WriteFragment(g, dst, frag, d) ==
    IF frag.discard THEN dst
    ELSE IF g.depthTest /\ ~(d < dst.depth) THEN dst
    ELSE LET a == Clamp(frag.FragColor[4], 0, 256000)
             src == [i \in 1..3 |-> Clamp(frag.FragColor[i] \div 256000, 0, 1000)]
             blended == [i \in 1..3 |->
                           Clamp((SrcFactor(g, a) * src[i]) \div 256000
                                   + (DstFactor(g, a) * dst.rgb[i]) \div 256000, 0, 1000)]
         IN [rgb |-> IF g.blend THEN blended ELSE src,
             a |-> IF g.blend
                   THEN Clamp(((SrcFactor(g, a) \div 256) * (a \div 256)) \div 1000
                                + ((DstFactor(g, a) \div 256) * dst.a) \div 1000, 0, 1000)
                   ELSE a \div 256,
             depth |-> IF g.depthTest /\ g.depthMask THEN d ELSE dst.depth]

\* glDrawArraysInstanced over the instances, in array order, seen from the
\* pixel at the center of splats that share a screen position and depth d:
\* the varyings of instance i come from the vertex stage, vLocalPos is (0,0).
RECURSIVE DrawAtCenter(_, _, _, _, _)
DrawAtCenter(g, dst, instances, uView, d) ==
    IF instances = <<>> THEN dst
    ELSE LET v == VertexMain(<<-1000, -1000>>, Head(instances), uView)
             frag == FragmentMain(<<0, 0>>, v.vColor, v.vOpacity)
         IN DrawAtCenter(g, WriteFragment(g, dst, frag, d), Tail(instances), uView, d)

\* Inputs of the stages.
Opacities == {-500, 0, 29, 30, 31, 60, 92, 406, 500, 1000, 2000}
Means == { <<0, 0, 0>>, <<1000, 2000, -3000>>, <<0, 0, 5000>> }
ScalesXYZ == { <<1000, 1000, 1000>>, <<1, 2, 30>>, <<-1000, 5, 7>> }
Colors == { <<1000, 0, 0>>, <<-500, 1500, 250>> }

ShaderInstances ==
    { PackInstance(Gaussian3D(m, sc, Quat(0, 0, 0, 1000), o, c)) :
        m \in Means, sc \in ScalesXYZ, o \in Opacities, c \in Colors }

\* The corners of the quad, and the positions interpolated between them.
QuadCorners == { <<quadVerts[2 * i - 1], quadVerts[2 * i]>> : i \in 1..6 }
LocalPositions == { <<250 * i, 250 * j>> : i \in -4..4, j \in -4..4 }

\* Identity; the default camera (at z = 4, looking down -z); a camera turned
\* a quarter turn about y.
ViewMatrices ==
    { << <<1, 0, 0, 0>>, <<0, 1, 0, 0>>, <<0, 0, 1, 0>>, <<0, 0, 0, 1>> >>,
      << <<1, 0, 0, 0>>, <<0, 1, 0, -500>>, <<0, 0, 1, -4000>>, <<0, 0, 0, 1>> >>,
      << <<0, 0, -1, 0>>, <<0, 1, 0, 0>>, <<1, 0, 0, -2000>>, <<0, 0, 0, 1>> >> }

InitShader ==
    /\ pc = "shader"
    /\ gl = GLInit
    /\ m_window = 0
    /\ m_renderer = Null
    /\ m_scene = Null
    /\ m_scene_path = NoPath
    /\ m_camera = Null
    /\ m_debug_ui = Null
    /\ frame = 0
    /\ closeFlag = FALSE
    /\ thrown = Null
    /\ call = NoCall
    /\ stage = NoStage
    /\ glfw = GLFWStart
    /\ trace = <<>>
    /\ m_mouse_captured = FALSE
    /\ m_last_mouse = <<0, 0>>

\* One invocation of the vertex stage (invocations share no state: a behaviour
\* is one invocation).
Shader_vertex ==
    /\ pc = "shader" /\ stage = NoStage
    /\ \E aQuadPos \in QuadCorners, inst \in ShaderInstances, uView \in ViewMatrices :
         stage' = [kind |-> "vertex", aQuadPos |-> aQuadPos, inst |-> inst, uView |-> uView,
                   out |-> VertexMain(aQuadPos, inst, uView)]
    /\ UNCHANGED <<pc, gl, m_window, m_renderer, m_scene, m_scene_path, m_camera, m_debug_ui,
                   frame, closeFlag, thrown, call>>
    /\ UNCHANGED appVars

\* One invocation of the fragment stage.
Shader_fragment ==
    /\ pc = "shader" /\ stage = NoStage
    /\ \E vLocalPos \in LocalPositions, vColor \in Colors, vOpacity \in Opacities :
         stage' = [kind |-> "fragment", vLocalPos |-> vLocalPos, vColor |-> vColor,
                   vOpacity |-> vOpacity,
                   out |-> FragmentMain(vLocalPos, vColor, vOpacity)]
    /\ UNCHANGED <<pc, gl, m_window, m_renderer, m_scene, m_scene_path, m_camera, m_debug_ui,
                   frame, closeFlag, thrown, call>>
    /\ UNCHANGED appVars

\* The splats of the compositing scenarios: white and black at opacity 0.5,
\* red at opacity 1, and a white one too faint to pass the discard test.
WhiteHalf ==
    Gaussian3D(<<0, 0, 0>>, <<1000, 1000, 1000>>, Quat(0, 0, 0, 1000), 500, <<1000, 1000, 1000>>)
BlackHalf ==
    Gaussian3D(<<0, 0, 0>>, <<1000, 1000, 1000>>, Quat(0, 0, 0, 1000), 500, <<0, 0, 0>>)
RedFull ==
    Gaussian3D(<<0, 0, 0>>, <<1000, 1000, 1000>>, Quat(0, 0, 0, 1000), 1000, <<1000, 0, 0>>)
WhiteFaint ==
    Gaussian3D(<<0, 0, 0>>, <<1000, 1000, 1000>>, Quat(0, 0, 0, 1000), 20, <<1000, 1000, 1000>>)
CompositeSplats == {WhiteHalf, BlackHalf, RedFull, WhiteFaint}

\* The default camera: Camera() at (0, 0.5, 4) looking down -z.
DefaultView == << <<1, 0, 0, 0>>, <<0, 1, 0, -500>>, <<0, 0, 1, -4000>>, <<0, 0, 0, 1>> >>

\* One frame seen from the pixel at the center of co-located splats: the clear
\* of begin_frame, then the draw of render_scene under the state it sets up.
Shader_composite ==
    /\ pc = "shader" /\ stage = NoStage
    /\ \E gaussians \in SeqsUpTo(CompositeSplats, 2), d \in {500, 960} :
         stage' = [kind |-> "composite", gaussians |-> gaussians, d |-> d,
                   out |-> DrawAtCenter(Renderer_setup_state(GLInit), ClearedPixel,
                                        PackInstances(gaussians), DefaultView, d)]
    /\ UNCHANGED <<pc, gl, m_window, m_renderer, m_scene, m_scene_path, m_camera, m_debug_ui,
                   frame, closeFlag, thrown, call>>
    /\ UNCHANGED appVars

\* Camera(): fov 60 degrees, so cot(fov / 2) = 1.732, in thousandths.
cotHalfFov == 1732

\* uView * vec4(worldPos, 1.0) for a world position in 1/1000000: the camera
\* space position, in 1/1000000.
ViewSpace(uView, worldPos) ==
    [i \in 1..3 |-> uView[i][1] * worldPos[1] + uView[i][2] * worldPos[2]
                      + uView[i][3] * worldPos[3] + uView[i][4] * 1000]

\* gl_Position = uProj * (camera space position), uProj being
\* glm::perspective(radians(60), aspect, 0.1, 100): clip coordinates in
\* 1/10000, aspect in thousandths.
ClipCoords(aspect, v) ==
    LET x == v[1] \div 100
        y == v[2] \div 100
        z == v[3] \div 100
    IN [x |-> (((cotHalfFov * 1000) \div aspect) * x) \div 1000,
        y |-> (cotHalfFov * y) \div 1000,
        z |-> (-1002 * z - 2002000) \div 1000,
        w |-> -z]

\* The six planes of the clip volume -w <= x, y, z <= w.
ClipPlanes == {"-x", "+x", "-y", "+y", "-z", "+z"}
Outside(c, plane) ==
    IF plane = "-x" THEN c.x < -c.w
    ELSE IF plane = "+x" THEN c.x > c.w
    ELSE IF plane = "-y" THEN c.y < -c.w
    ELSE IF plane = "+y" THEN c.y > c.w
    ELSE IF plane = "-z" THEN c.z < -c.w
    ELSE c.z > c.w

\* One instance through the pipeline: the clip coordinates of its four
\* corners and of its center, whether the quad is clipped away whole (every
\* corner outside one plane), whether it has no area, and the fragment the
\* fragment stage makes at its center.
InstanceRaster(gaussian, uView, aspect) ==
    LET inst == PackInstance(gaussian)
        vs == [c \in QuadCorners |-> VertexMain(c, inst, uView)]
        clip == [c \in QuadCorners |-> ClipCoords(aspect, ViewSpace(uView, vs[c].worldPos))]
        any == vs[<<-1000, -1000>>]
        mean == [i \in 1..3 |-> gaussian.mean[i] * 1000]
    IN [clip |-> clip,
        centerClip |-> ClipCoords(aspect, ViewSpace(uView, mean)),
        culled |-> \E plane \in ClipPlanes : \A c \in QuadCorners : Outside(clip[c], plane),
        degenerate |-> any.s[1] * any.r = 0 \/ any.s[2] * any.r = 0,
        center |-> FragmentMain(<<0, 0>>, any.vColor, any.vOpacity)]

\* The view matrix of the end-to-end scenario.
IdentityView == << <<1, 0, 0, 0>>, <<0, 1, 0, 0>>, <<0, 0, 1, 0>>, <<0, 0, 0, 1>> >>

\* Renderer::aspect_ratio for a 1280 x 720 framebuffer, and for one of height 0.
Aspects == {1778, 1000}

\* One scene of a single record through render_scene and both stages.
Shader_instance ==
    /\ pc = "shader" /\ stage = NoStage
    /\ \E gaussian \in CompositeSplats \cup GaussianSamples, uView \in ViewMatrices,
          aspect \in Aspects :
         stage' = [kind |-> "instance", gaussian |-> gaussian, uView |-> uView,
                   aspect |-> aspect,
                   instances |-> PackInstances(<<gaussian>>),
                   out |-> InstanceRaster(gaussian, uView, aspect)]
    /\ UNCHANGED <<pc, gl, m_window, m_renderer, m_scene, m_scene_path, m_camera, m_debug_ui,
                   frame, closeFlag, thrown, call>>
    /\ UNCHANGED appVars

NextShader ==
    \/ Shader_vertex
    \/ Shader_fragment
    \/ Shader_composite
    \/ Shader_instance

SpecShader == InitShader /\ [][NextShader]_vars

-----------------------------------------------------------------------------
(* Properties *)

\* The GL calls of one kind in the log of the latest step.
LogOf(kind) == SelectSeq(gl.log, LAMBDA e : e.call = kind)
Uploads == LogOf("glBufferData")
Draws == LogOf("glDrawArraysInstanced")

RenderedSome == call.op = "render_scene" /\ call.n >= 1
RenderedNone == call.op = "render_scene" /\ call.n = 0

\* C1: the instance sequence render_scene packs and uploads has exactly as
\* many entries as the scene has records, and entry i is the instance of
\* record i: nothing is filtered, culled or reordered, transparent records
\* included.
C1_PackKeepsEveryRecord ==
    RenderedSome =>
        /\ Len(Uploads) = 1
        /\ Len(Uploads[1].data) = Len(m_scene[1])
        /\ \A i \in 1..Len(m_scene[1]) : Uploads[1].data[i] = PackInstance(m_scene[1][i])
        /\ m_renderer[1].m_instance_buffer[1].instance_count = Len(m_scene[1])

\* A scene of two records, the first fully transparent, has been packed.
C1_Witness ==
    /\ RenderedSome
    /\ Len(m_scene[1]) = 2
    /\ m_scene[1][1].opacity = 0
    /\ m_scene[1][2].opacity # 0
    /\ Len(Uploads) = 1

\* C2: unpacking the four groups of every packed instance gives back the mean,
\* rotation, scale, opacity and color of the record it was packed from, and
\* the two padding floats are zero.
C2_PackUnpackRoundTrip ==
    RenderedSome =>
        \A u \in 1..Len(Uploads) :
            \A i \in 1..Min(Len(Uploads[u].data), Len(m_scene[1])) :
                /\ UnpackInstance(Uploads[u].data[i]) = m_scene[1][i]
                /\ Uploads[u].data[i].coloryz_pad[3] = 0
                /\ Uploads[u].data[i].coloryz_pad[4] = 0

\* A record whose fields all differ from one another (and lie outside [0,1])
\* has been packed.
C2_Witness ==
    /\ RenderedSome
    /\ Len(Uploads) = 1
    /\ \E i \in 1..Len(m_scene[1]) :
          /\ m_scene[1][i].color[2] # m_scene[1][i].color[3]
          /\ m_scene[1][i].opacity > 1000
          /\ m_scene[1][i].rotation.x # m_scene[1][i].rotation.w

\* C3: render_scene with an empty scene has no side effect: no upload, no
\* draw, and the GL state (blend, depth, bindings, framebuffer, objects) and
\* the renderer (instance buffer handle and count included) stay as they were.
C3_EmptySceneNoEffect ==
    [][ (call'.op = "render_scene" /\ call'.n = 0) =>
            /\ gl'.log = <<>>
            /\ GLState(gl') = GLState(gl)
            /\ m_renderer' = m_renderer ]_vars

\* An empty scene has been rendered by a renderer that had drawn before, in a
\* context left with blending on and depth writes off.
C3_Witness ==
    /\ RenderedNone
    /\ m_renderer[1].m_instance_buffer[1].instance_count > 0
    /\ gl.blend /\ ~gl.depthMask

\* The attribute render_scene declares for location i + 1 out of buffer vbo.
InstanceAttribOf(i, vbo) ==
    [enabled |-> TRUE, size |-> 4, stride |-> 64, offset |-> 16 * i, divisor |-> 1,
     buffer |-> vbo]

\* C4: a render_scene call with N >= 1 records replaces the instance buffer by
\* a newly generated one holding exactly N * 64 bytes (the old one is deleted),
\* and issues exactly one instanced draw of 6 vertices x N instances; when the
\* draw is issued the upload, the blend/depth state, both uniforms, the quad
\* vertex array and the four per-instance attributes (4 floats, stride 64,
\* offsets 0/16/32/48, divisor 1) are already in place.
C4_UploadThenOneDraw ==
    [][ (call'.op = "render_scene" /\ call'.n >= 1) =>
          LET N == call'.n
              r == m_renderer'[1]
              vbo == r.m_instance_buffer[1].vbo[1]
              old == m_renderer[1].m_instance_buffer[1].vbo
              vao == r.m_quad_mesh[1].m_vao[1]
              d == gl'.log[2].state
          IN /\ vbo \notin gl.buffers /\ vbo \in gl'.buffers
             /\ old # Null => old[1] \notin gl'.buffers
             /\ gl'.bufferData[vbo].bytes = N * 64
             /\ r.m_instance_buffer[1].instance_count = N
             /\ Len(gl'.log) = 2
             /\ gl'.log[1].call = "glBufferData"
             /\ gl'.log[1].buffer = vbo /\ gl'.log[1].bytes = N * 64
             /\ gl'.log[2].call = "glDrawArraysInstanced"
             /\ gl'.log[2].first = 0 /\ gl'.log[2].count = 6 /\ gl'.log[2].instances = N
             /\ d.bufferData[vbo].bytes = N * 64
             /\ d.blend /\ d.blendSrc = "ONE" /\ d.blendDst = "ONE_MINUS_SRC_ALPHA"
             /\ d.depthTest /\ ~d.depthMask
             /\ d.program = r.m_program /\ d.program \in d.programs
             /\ d.uniforms[d.program].uView = m_camera'[1]
             /\ d.uniforms[d.program].uProj = Camera_projection(1000)
             /\ d.vertexArray = vao /\ vao \in d.vertexArrays
             /\ \A i \in 0..3 : d.attribs[vao][i + 1] = InstanceAttribOf(i, vbo) ]_vars

\* A second render_scene of the same renderer has drawn two records: of the
\* buffers generated after the quad's only the newest is left.
C4_Witness ==
    /\ RenderedSome /\ call.n = 2 /\ frame = 2
    /\ Len(Draws) = 1 /\ Len(Uploads) = 1
    /\ LET r == m_renderer[1]
       IN /\ gl.buffers = {r.m_quad_mesh[1].m_vbo[1], r.m_instance_buffer[1].vbo[1]}
          /\ r.m_instance_buffer[1].vbo[1] > r.m_quad_mesh[1].m_vbo[1] + 1
          /\ gl.bufferData[r.m_instance_buffer[1].vbo[1]].bytes = 128

SplatState(g) ==
    /\ g.blend /\ g.blendSrc = "ONE" /\ g.blendDst = "ONE_MINUS_SRC_ALPHA"
    /\ g.depthTest /\ ~g.depthMask

\* C5: every instanced draw of render_scene is issued with blending on with
\* factors (ONE, ONE_MINUS_SRC_ALPHA), depth test on and depth writes off; when
\* render_scene returns after drawing, depth writes are on and blending is off;
\* and the debug overlay and the clear of every frame run with depth writes on
\* and blending off.
C5_SplatStateDoesNotLeak ==
    /\ \A i \in 1..Len(Draws) : SplatState(Draws[i].state)
    /\ RenderedSome => (Len(Draws) = 1 /\ gl.depthMask /\ ~gl.blend)
    /\ \A i \in 1..Len(gl.log) :
          gl.log[i].call \in {"ImGui_ImplOpenGL3_RenderDrawData", "glClear"} =>
              (gl.log[i].state.depthMask /\ ~gl.log[i].state.blend)

\* The overlay of the second frame has run after splats were drawn in it.
C5_Witness ==
    /\ pc = "swap" /\ frame = 2
    /\ Len(m_scene[1]) >= 1
    /\ Len(gl.log) = 1
    /\ gl.log[1].call = "ImGui_ImplOpenGL3_RenderDrawData"
    /\ gl.log[1].state.color = "drawn"
    /\ gl.log[1].state.depthTest

InRenderLoop ==
    pc \in {"run", "poll", "viewport", "input", "begin_frame", "render_scene", "overlay", "swap"}

\* C6: when a shader fails to compile or the program fails to link in
\* Renderer::init, the exception with the driver's info log in its message
\* leaves init; the program is then terminated for good (no step follows, so
\* no render_scene), and the render loop only ever runs with a live program.
C6_ShaderFailureIsFatal ==
    /\ [](call.op = "init" /\ call.drv # "ok" =>
            /\ pc = "terminated"
            /\ thrown = <<[what |-> <<IF call.drv = "link_fails"
                                      THEN "Program link failed: "
                                      ELSE "Shader compile failed: ", call.log>>]>>)
    /\ [](thrown # Null => pc = "terminated")
    /\ [](InRenderLoop => m_renderer[1].m_program \in gl.programs)
    /\ [][pc = "terminated" => (pc' = "terminated" /\ call'.op # "render_scene")]_vars

\* The link has failed in the init of a frame of App::run.
C6_Witness ==
    /\ pc = "terminated" /\ frame >= 1
    /\ call.op = "init" /\ call.drv = "link_fails"
    /\ thrown # Null

\* C7: the quad geometry is created and uploaded once in the lifetime of the
\* application: once the renderer has its quad mesh, no later step gives it
\* another one or uploads quad vertices again.
C7_QuadCreatedOnce ==
    [][ (m_renderer # Null /\ m_renderer' # Null /\ m_renderer[1].m_quad_mesh # Null) =>
          /\ m_renderer'[1].m_quad_mesh = m_renderer[1].m_quad_mesh
          /\ \A i \in 1..Len(gl'.log) :
                ~(gl'.log[i].call = "glBufferData" /\ gl'.log[i].usage = "STATIC_DRAW") ]_vars

\* C8: once the Renderer is destroyed, no program, buffer or vertex array it
\* created is left undeleted (a program deleted while current counts as
\* deleted).
C8_AllHandlesReleased ==
    pc = "destroyed" =>
        /\ gl.programs \ gl.deletePending = {}
        /\ gl.buffers = {}
        /\ gl.vertexArrays = {}

\* C9 as claimed: t lies in [0,1] and the alpha the fragment stage outputs
\* lies in [0,1], for every opacity.
C9_AlphaClamped ==
    stage.kind = "fragment" =>
        /\ stage.out.t \in 0..16
        /\ ~stage.out.discard => (stage.out.FragColor[4] >= 0 /\ stage.out.FragColor[4] <= 256000)

\* C9 as amended: t lies in [0,1]; alpha = opacity * t * t is not clamped: an
\* output alpha lies between 0.03 and the opacity, so within [0,1] exactly
\* when the opacity is at most 1.
C9_AlphaBoundedByOpacity ==
    stage.kind = "fragment" =>
        /\ stage.out.t \in 0..16
        /\ stage.out.alpha = stage.vOpacity * stage.out.t * stage.out.t
        /\ stage.out.discard <=> stage.out.alpha < eps * 256
        /\ ~stage.out.discard =>
              /\ stage.out.FragColor[4] = stage.out.alpha
              /\ stage.out.FragColor[4] >= eps * 256
              /\ stage.out.FragColor[4] <= stage.vOpacity * 256
        /\ (~stage.out.discard /\ stage.vOpacity <= 1000) => stage.out.FragColor[4] <= 256000

\* A fragment outside the unit circle (t clamped to 0) and a kept fragment of
\* opacity 2 whose alpha is above 1.
C9_Witness ==
    /\ stage.kind = "fragment"
    /\ stage.vOpacity = 2000
    /\ ~stage.out.discard
    /\ stage.out.FragColor[4] > 256000

\* The half-extents of the billboard along right and up, in 1/1000000.
HalfExtent(out) == <<Abs(out.offset[1]), Abs(out.offset[2])>>

\* C10 as claimed: z is never below 0.1, and the half-extent along right and
\* along up is at most 0.01 * z * r, hence at most 0.015 * z, for every scale.
C10_ExtentBounded ==
    stage.kind = "vertex" =>
        /\ stage.out.z >= zNear
        /\ \A i \in 1..2 :
              /\ HalfExtent(stage.out)[i] <= stage.out.z * stage.out.r
              /\ HalfExtent(stage.out)[i] <= stage.out.z * rCap

\* C10 as amended: z is never below 0.1, and the bound on the half-extent holds
\* along each axis whose scale is at least -0.01 * z (every non-negative scale):
\* min() caps the scale only from above.
C10_ExtentBoundedForScaleAboveMinusMax ==
    stage.kind = "vertex" =>
        /\ stage.out.z >= zNear
        /\ stage.out.z >= -MatVec(stage.uView, vec4(stage.inst.mean_opacity, 1))[3]
        /\ stage.out.r \in 0..rCap
        /\ \A i \in 1..2 :
              stage.inst.scale_colorx[i] * 100 >= -stage.out.maxWorld =>
                  /\ HalfExtent(stage.out)[i] <= stage.out.z * stage.out.r
                  /\ HalfExtent(stage.out)[i] <= stage.out.z * rCap

\* A splat behind the camera (z clamped to 0.1) of scale 1 and full radius:
\* its half-extent is the bound itself.
C10_Witness ==
    /\ stage.kind = "vertex"
    /\ stage.out.z = zNear
    /\ stage.out.r = rCap
    /\ stage.inst.scale_colorx[1] = 1000
    /\ HalfExtent(stage.out)[1] = stage.out.z * rCap

\* C11: the radius the vertex stage derives from the opacity lies in [0, 1.5],
\* is 0 for every opacity up to 0.03, is the cap 1.5 for opacity 1.0, and is
\* never smaller than the radius of a lower opacity.
C11_RadiusMonotoneAndCapped ==
    stage.kind = "vertex" =>
        /\ stage.out.r \in 0..rCap
        /\ stage.out.vOpacity <= eps => stage.out.r = 0
        /\ stage.out.vOpacity = 1000 => stage.out.r = rCap
        /\ \A o \in Opacities :
              /\ o <= stage.out.vOpacity => Radius(o) <= stage.out.r
              /\ o >= stage.out.vOpacity => Radius(o) >= stage.out.r

\* An opacity of 0.06 (twice eps): a radius strictly between 0 and the cap.
C11_Witness ==
    /\ stage.kind = "vertex"
    /\ stage.out.vOpacity = 60
    /\ stage.out.r = 11

\* C12: alpha = opacity * t * t with t = clamp(1 - |localPos|^2, 0, 1): at the
\* center alpha equals the opacity; at every position with |localPos| >= 1
\* (the quad corners among them) t is 0, alpha is 0 and the fragment is
\* discarded.
C12_AlphaFormula ==
    stage.kind = "fragment" =>
        LET p == stage.vLocalPos
            r2 == p[1] * p[1] + p[2] * p[2]
        IN /\ stage.out.t = Clamp(16 - r2 \div 62500, 0, 16)
           /\ stage.out.alpha = stage.vOpacity * stage.out.t * stage.out.t
           /\ p = <<0, 0>> => (stage.out.t = 16 /\ stage.out.alpha = stage.vOpacity * 256)
           /\ r2 >= 1000000 =>
                 (stage.out.t = 0 /\ stage.out.alpha = 0 /\ stage.out.discard)

\* A corner of the quad of a splat of opacity 2: discarded.
C12_Witness ==
    /\ stage.kind = "fragment"
    /\ stage.vLocalPos \in QuadCorners
    /\ stage.vOpacity = 2000
    /\ stage.out.alpha = 0
    /\ stage.out.discard

\* C13: a fragment is discarded exactly when its alpha is below 0.03, the eps
\* of the vertex stage; alpha = 0.03 itself is kept; a kept fragment outputs
\* (color * alpha, alpha); a discarded one changes neither the color nor the
\* depth of its pixel, whatever the state.
C13_DiscardBelowThreshold ==
    stage.kind = "fragment" =>
        /\ alphaThreshold = eps
        /\ stage.out.discard <=> stage.out.alpha < eps * 256
        /\ ~stage.out.discard =>
              stage.out.FragColor = << stage.vColor[1] * stage.out.alpha,
                                       stage.vColor[2] * stage.out.alpha,
                                       stage.vColor[3] * stage.out.alpha,
                                       stage.out.alpha >>
        /\ stage.out.discard =>
              \A g \in {GLInit, Renderer_setup_state(GLInit)} :
                  WriteFragment(g, ClearedPixel, stage.out, 500) = ClearedPixel

\* The boundary: opacity 0.03 at the center, alpha exactly 0.03, kept.
C13_Witness ==
    /\ stage.kind = "fragment"
    /\ stage.out.alpha = eps * 256
    /\ ~stage.out.discard
    /\ stage.out.FragColor[4] = eps * 256

\* C14: the splats are composited in array order, without depth sort or depth
\* write, each kept fragment as dst = src_premultiplied + (1 - src_alpha) * dst
\* over the clear color: white then black at opacity 0.5 gives 0.275 per
\* channel at the overlap center, black then white gives 0.525.
C14_OrderDependentComposite ==
    stage.kind = "composite" =>
        LET gs == stage.gaussians
            Over(n, dst) ==
                IF n > Len(gs) \/ gs[n].opacity < eps THEN dst
                ELSE [i \in 1..3 |-> (gs[n].color[i] * gs[n].opacity) \div 1000
                                       + ((1000 - gs[n].opacity) * dst[i]) \div 1000]
        IN /\ stage.out.depth = ClearedPixel.depth
           /\ stage.out.rgb = Over(2, Over(1, ClearedPixel.rgb))
           /\ gs = <<WhiteHalf, BlackHalf>> => stage.out.rgb = <<275, 275, 275>>
           /\ gs = <<BlackHalf, WhiteHalf>> => stage.out.rgb = <<525, 525, 525>>

\* White then black, both at opacity 0.5: the second splat is not rejected by
\* the depth test and darkens the first.
C14_Witness ==
    /\ stage.kind = "composite"
    /\ stage.gaussians = <<WhiteHalf, BlackHalf>>
    /\ stage.out.rgb = <<275, 275, 275>>

\* Whether the clip coordinates c lie in front of the eye and inside the clip
\* volume.
InsideClipVolume(c) == c.w > 0 /\ \A plane \in ClipPlanes : ~Outside(c, plane)

\* C15 as claimed: the single red record of opacity 1 at the origin, under the
\* identity view and a perspective projection, gives one instance that is
\* not degenerate, not clipped, centered at the projected origin, with a red
\* center fragment of alpha 1.
C15_RedSplatVisibleUnderIdentityView ==
    (stage.kind = "instance" /\ stage.gaussian = RedFull /\ stage.uView = IdentityView) =>
        /\ Len(stage.instances) = 1
        /\ ~stage.out.degenerate
        /\ ~stage.out.culled
        /\ InsideClipVolume(stage.out.centerClip)
        /\ ~stage.out.center.discard
        /\ stage.out.center.FragColor = <<256000000, 0, 0, 256000>>

\* C15 as amended: the record gives one instance, not degenerate, whose center
\* fragment is red at alpha 1; the instance is visible and centered on the
\* projection of the origin when the view puts the origin inside the clip
\* volume (the default camera does); under the identity view the origin is
\* the eye itself, every corner has w = 0 and lies before the near plane,
\* and the whole instance is clipped away.
C15_RedSplatVisibleWhenInFrontOfCamera ==
    (stage.kind = "instance" /\ stage.gaussian = RedFull) =>
        /\ Len(stage.instances) = 1
        /\ ~stage.out.degenerate
        /\ ~stage.out.center.discard
        /\ stage.out.center.FragColor = <<256000000, 0, 0, 256000>>
        /\ InsideClipVolume(stage.out.centerClip) =>
              /\ ~stage.out.culled
              /\ \A c \in QuadCorners :
                    /\ stage.out.clip[c].w = stage.out.centerClip.w
                    /\ stage.out.clip[c].x + stage.out.clip[<<-c[1], -c[2]>>].x
                         \in { 2 * stage.out.centerClip.x + k : k \in -1..1 }
        /\ stage.uView = DefaultView => InsideClipVolume(stage.out.centerClip)
        /\ stage.uView = IdentityView =>
              /\ stage.out.culled
              /\ \A c \in QuadCorners : stage.out.clip[c].w = 0 /\ Outside(stage.out.clip[c], "-z")

\* The red record under the default camera: visible, red at alpha 1.
C15_Witness ==
    /\ stage.kind = "instance"
    /\ stage.gaussian = RedFull
    /\ stage.uView = DefaultView
    /\ ~stage.out.culled
    /\ ~stage.out.center.discard

\* C16: a GL error found by the query after the draw is absorbed: render_scene
\* prints it and returns as it does without error (depth writes on again,
\* blending off, the same GL state and renderer), nothing is thrown, and the
\* frame goes on to the overlay and the swap, and the loop to its next test.
C16_GLErrorAbsorbed ==
    /\ [][ (call'.op = "render_scene" /\ call'.err # 0) =>
             LET r == m_renderer[1]
                 quiet == Renderer_render_scene(Fresh(gl), r, m_scene[1], m_camera[1],
                                                Camera_projection(Renderer_aspect_ratio(r)), 0)
             IN /\ call'.stderr = <<call'.err>>
                /\ gl'.depthMask /\ ~gl'.blend
                /\ gl' = quiet.gl /\ m_renderer' = <<quiet.r>>
                /\ thrown' = Null
                /\ pc' = "overlay" ]_vars
    /\ [][ pc = "overlay" => (pc' = "swap" /\ thrown' = Null) ]_vars
    /\ [][ pc = "swap" => (pc' = "run" /\ thrown' = Null) ]_vars
    /\ [](thrown # Null => call.op = "init")

\* render_scene has drawn, the error query answered GL_INVALID_OPERATION, and
\* the frame is about to draw its overlay.
C16_Witness ==
    /\ pc = "overlay"
    /\ call.op = "render_scene" /\ call.err = 1282 /\ call.stderr = <<1282>>
    /\ Len(Draws) = 1
    /\ thrown = Null

\* C17: App::load_scene replaces the scene in one step or not at all.  It
\* returns true exactly for a file that opens and has a "gaussians" array
\* whose records all have "color"; then the scene is the file's records, in
\* file order and nothing else, and the scene path is the new path.  When it
\* returns false the scene and the scene path are what they were.
C17_LoadReplacesAtomically ==
    [][ call'.op = "load_scene" =>
          LET file == FileAt(call'.filepath)
              loadable == /\ file.kind = "gaussians"
                          /\ \A i \in 1..Len(file.items) : file.items[i].color.t # "absent"
          IN /\ call'.ret <=> loadable
             /\ call'.ret =>
                   /\ Len(m_scene'[1]) = Len(file.items)
                   /\ \A i \in 1..Len(file.items) : m_scene'[1][i] = LoadItem(file.items[i])
                   /\ m_scene_path' = call'.filepath
             /\ ~call'.ret =>
                   /\ m_scene' = m_scene
                   /\ m_scene_path' = m_scene_path
                   /\ call'.stderr # <<>> ]_vars

\* A file whose second record lacks "color" has been refused while a scene
\* loaded earlier was in place: that scene and its path are still there.
C17_Witness ==
    /\ call.op = "load_scene" /\ ~call.ret
    /\ FileAt(call.filepath).kind = "gaussians"
    /\ Len(FileAt(call.filepath).items) = 2
    /\ m_scene_path # NoPath /\ m_scene_path # call.filepath
    /\ m_scene[1] # <<>>
    /\ Len(m_scene[1]) = Len(FileAt(m_scene_path).items)

\* C18: a record whose "rotation" is [qx, qy, qz, qw] is loaded with rotation
\* x = qx, y = qy, z = qz, w = qw, and is packed with (qx, qy, qz, qw) as the
\* second group of its instance.
C18_RotationLoadedAsXYZW ==
    (call.op = "load_scene" /\ call.ret) =>
        \A i \in 1..Len(m_scene[1]) :
            LET rotation == FileAt(call.filepath).items[i].rotation
            IN IsArrayOf(rotation, 4) =>
                  /\ m_scene[1][i].rotation = Quat(rotation.v[1], rotation.v[2],
                                                     rotation.v[3], rotation.v[4])
                  /\ PackInstance(m_scene[1][i]).quat = SubSeq(rotation.v, 1, 4)

\* C19 as claimed: only "color" is required; a record without mean/position,
\* scale, rotation or opacity gets (0,0,0), (1,1,1), the identity and 1; when
\* "mean" and "position" are both present the mean is the "mean" key's; opacity
\* and color are stored as given and reach the packed instance.
C19_DefaultsAndMeanOverPosition ==
    (call.op = "load_scene" /\ call.ret) =>
        \A i \in 1..Len(m_scene[1]) :
            LET item == FileAt(call.filepath).items[i]
                g == m_scene[1][i]
            IN /\ (item.mean.t = "absent" /\ item.position.t = "absent") => g.mean = <<0, 0, 0>>
               /\ item.scale.t = "absent" => g.scale = <<1000, 1000, 1000>>
               /\ item.rotation.t = "absent" => g.rotation = Quat(0, 0, 0, 1000)
               /\ item.opacity.t = "absent" => g.opacity = 1000
               /\ (item.mean.t # "absent" /\ item.position.t # "absent") =>
                     \A k \in 1..3 : k <= Len(item.mean.v) /\ g.mean[k] = item.mean.v[k]
               /\ item.opacity.t = "number" => g.opacity = item.opacity.v[1]
               /\ g.color = SubSeq(item.color.v, 1, 3)
               /\ PackInstance(g).mean_opacity[4] = g.opacity
               /\ << PackInstance(g).scale_colorx[4], PackInstance(g).coloryz_pad[1],
                      PackInstance(g).coloryz_pad[2] >> = g.color

\* C19 as amended: a key counts only when its value is usable ("mean",
\* "position", "scale" an array of at least 3 elements, "rotation" an array of
\* at least 4, "opacity" a number); otherwise the default stands.  "mean" is
\* used when usable, whatever "position" is; "position" is used when "mean" is
\* absent or unusable.  Opacity and color are stored as given and reach the
\* packed instance.
C19_DefaultsForUnusableKeys ==
    (call.op = "load_scene" /\ call.ret) =>
        \A i \in 1..Len(m_scene[1]) :
            LET item == FileAt(call.filepath).items[i]
                g == m_scene[1][i]
            IN /\ (~IsArrayOf(item.mean, 3) /\ ~IsArrayOf(item.position, 3)) => g.mean = <<0, 0, 0>>
               /\ ~IsArrayOf(item.scale, 3) => g.scale = <<1000, 1000, 1000>>
               /\ ~IsArrayOf(item.rotation, 4) => g.rotation = Quat(0, 0, 0, 1000)
               /\ item.opacity.t # "number" => g.opacity = 1000
               /\ IsArrayOf(item.mean, 3) => g.mean = SubSeq(item.mean.v, 1, 3)
               /\ (~IsArrayOf(item.mean, 3) /\ IsArrayOf(item.position, 3)) =>
                     g.mean = SubSeq(item.position.v, 1, 3)
               /\ IsArrayOf(item.scale, 3) => g.scale = SubSeq(item.scale.v, 1, 3)
               /\ item.opacity.t = "number" => g.opacity = item.opacity.v[1]
               /\ g.color = SubSeq(item.color.v, 1, 3)
               /\ PackInstance(g).mean_opacity[4] = g.opacity
               /\ << PackInstance(g).scale_colorx[4], PackInstance(g).coloryz_pad[1],
                      PackInstance(g).coloryz_pad[2] >> = g.color

\* A loaded record that had both keys, an opacity of 2 and colors outside
\* [0,1], next to one that had only "color".
C19_Witness ==
    /\ call.op = "load_scene" /\ call.ret
    /\ FileAt(call.filepath).items = <<ItemMeanAndPosition, ItemColorOnly>>
    /\ m_scene[1][1].mean = <<1000, 1000, 1000>>
    /\ m_scene[1][1].opacity = 2000
    /\ m_scene[1][1].color = <<-500, 1500, 250>>
    /\ m_scene[1][2].rotation = Quat(0, 0, 0, 1000)

\* C20: add_gaussian puts the record after the existing ones and leaves them
\* as they are, set_gaussians makes the sequence its argument, clear makes
\* it empty, and gaussian_count is the length of the sequence.
C20_SceneIsInsertionOrdered ==
    /\ [][ call'.op = "add_gaussian" =>
             /\ Len(m_scene'[1]) = Len(m_scene[1]) + 1
             /\ \A i \in 1..Len(m_scene[1]) : m_scene'[1][i] = m_scene[1][i]
             /\ m_scene'[1][Len(m_scene'[1])] = call'.arg[1] ]_vars
    /\ [][ call'.op = "set_gaussians" => m_scene'[1] = call'.arg ]_vars
    /\ [][ call'.op = "clear" => m_scene'[1] = <<>> ]_vars
    /\ [][ call'.op \in {"add_gaussian", "set_gaussians", "clear"} =>
             m_scene_path' = m_scene_path ]_vars
    /\ [](Scene_gaussian_count(m_scene[1]) = Len(m_scene[1]))

\* A second, different record has been added after a first.
C20_Witness ==
    /\ call.op = "add_gaussian"
    /\ Scene_gaussian_count(m_scene[1]) = 2
    /\ m_scene[1][2] = call.arg[1]
    /\ m_scene[1][1] # m_scene[1][2]

\* The step of App::run that follows each step of a frame.
FrameSuccessor ==
    [p \in {"poll", "viewport", "input", "begin_frame", "render_scene", "overlay", "swap"} |->
        CASE p = "poll" -> "viewport"
          [] p = "viewport" -> "input"
          [] p = "input" -> "begin_frame"
          [] p = "begin_frame" -> "render_scene"
          [] p = "render_scene" -> "overlay"
          [] p = "overlay" -> "swap"
          [] p = "swap" -> "run"]

\* C21: App::run returns only at a loop test that finds the close flag set,
\* it returns at the first such test, and every frame it has started goes
\* through all its steps to the buffer swap and back to the loop test.
C21_RunReturnsWhenClosed ==
    /\ [][ (pc' = main_after_run /\ pc # main_after_run) => (pc = "run" /\ closeFlag) ]_vars
    /\ [][ (pc = "run" /\ closeFlag) => pc' = main_after_run ]_vars
    /\ [][ (pc \in DOMAIN FrameSuccessor) => (pc' = FrameSuccessor[pc]) ]_vars

\* Where in the trace the program has made the call `name`.
Positions(name) == { i \in 1..Len(trace) : trace[i] = name }

\* C22: once App::shutdown has been called after an App::init, whatever step
\* init failed at and however many times shutdown runs, glfwDestroyWindow has
\* been called exactly once for the window init created (never when it
\* created none), DebugUI::shutdown at most once and only after DebugUI::init,
\* and the Renderer is destroyed before the window.
C22_ShutdownReleasesOnce ==
    Positions("App::shutdown") # {} =>
        /\ glfw.window # "none" =>
              (Cardinality(Positions("glfwDestroyWindow")) = 1 /\ glfw.window = "destroyed")
        /\ glfw.window = "none" => Positions("glfwDestroyWindow") = {}
        /\ Cardinality(Positions("DebugUI::shutdown")) <= 1
        /\ \A i \in Positions("DebugUI::shutdown") :
              \E j \in Positions("DebugUI::init") : j < i
        /\ \A i \in Positions("Renderer::~Renderer"), j \in Positions("glfwDestroyWindow") : i < j

\* The calls of main on app, and the loop tests of App::run, in the order made.
PhaseCalls ==
    SelectSeq(trace, LAMBDA c : c \in {"App::init", "App::load_scene", "App::should_close",
                                        "App::shutdown"})

\* n loop tests.
LoopTests(n) == [i \in 1..n |-> "App::should_close"]

\* C23: the render loop is entered only after App::init and App::load_scene
\* have returned true, in that order; after a failed init main returns 1 with
\* no load and no frame; after a failed load it calls shutdown and returns 1
\* with no frame; after a run it calls shutdown and returns 0.  (The shutdown
\* of the destructor follows every return.)
C23_PhasesInOrder ==
    /\ InRenderLoop =>
          /\ SubSeq(PhaseCalls, 1, 2) = <<"App::init", "App::load_scene">>
          /\ Positions("DebugUI::init") # {}
          /\ m_scene_path # NoPath /\ m_scene # Null
          /\ Positions("App::shutdown") = {}
    /\ (pc = "exit_1" /\ Positions("DebugUI::init") = {}) =>
          /\ PhaseCalls = <<"App::init", "App::shutdown">>
          /\ frame = 0 /\ m_scene_path = NoPath
    /\ (pc = "exit_1" /\ Positions("DebugUI::init") # {}) =>
          /\ PhaseCalls = <<"App::init", "App::load_scene", "App::shutdown", "App::shutdown">>
          /\ frame = 0 /\ m_scene_path = NoPath
    /\ pc = "exit_0" =>
          /\ PhaseCalls = <<"App::init", "App::load_scene">> \o LoopTests(frame + 1)
                            \o <<"App::shutdown", "App::shutdown">>
          /\ Positions("DebugUI::init") # {}
          /\ m_scene_path # NoPath
          /\ closeFlag

\* main has returned 1 after a load that failed: init had succeeded, shutdown
\* was called, no frame ran.
C23_Witness ==
    /\ pc = "exit_1"
    /\ Positions("App::load_scene") # {}
    /\ Positions("glfwPollEvents") = {}
    /\ glfw.window = "destroyed"

\* C25: viewport_width() and viewport_height() answer the size given to the
\* latest Renderer::init (also when that init threw) and no other call
\* changes them; aspect_ratio() is width / height for a positive height
\* (1.777 for 1280 x 720) and 1 for height 0, so the projection of a frame
\* whose framebuffer has no height is the one of aspect 1.
C25_ViewportAccessors ==
    /\ [][ call'.op = "init" =>
             /\ Renderer_viewport_width(m_renderer'[1]) = call'.width
             /\ Renderer_viewport_height(m_renderer'[1]) = call'.height ]_vars
    /\ [][ (call'.op # "init" /\ m_renderer # Null /\ m_renderer' # Null) =>
             /\ Renderer_viewport_width(m_renderer'[1]) = Renderer_viewport_width(m_renderer[1])
             /\ Renderer_viewport_height(m_renderer'[1]) = Renderer_viewport_height(m_renderer[1]) ]_vars
    /\ [](m_renderer # Null =>
            LET r == m_renderer[1]
                w == Renderer_viewport_width(r)
                h == Renderer_viewport_height(r)
            IN /\ h > 0 => Renderer_aspect_ratio(r) * h \in (w * 1000 - h + 1)..(w * 1000)
               /\ h <= 0 => Renderer_aspect_ratio(r) = 1000
               /\ <<w, h>> = <<1280, 720>> => Renderer_aspect_ratio(r) = 1777
               /\ \A i \in 1..Len(Draws) :
                     Draws[i].state.uniforms[Draws[i].state.program].uProj
                        = Camera_projection(IF h > 0 THEN (w * 1000) \div h ELSE 1000))

\* A frame whose framebuffer is 640 x 0 has drawn its splats with the
\* projection of aspect 1.
C25_Witness ==
    /\ pc = "overlay"
    /\ Renderer_viewport_width(m_renderer[1]) = 640
    /\ Renderer_viewport_height(m_renderer[1]) = 0
    /\ Len(Draws) = 1
    /\ Draws[1].state.uniforms[Draws[1].state.program].uProj = Camera_projection(1000)
    /\ gl.viewport = <<640, 0>>

\* The calls of one iteration of App::run, after its loop test.
FrameOrder ==
    <<"glfwPollEvents", "Time::tick", "glfwGetFramebufferSize", "Renderer::init",
      "App::handle_input", "App::update", "Renderer::begin_frame", "Renderer::render_scene",
      "DebugUI::begin_frame", "DebugUI::render_debug_overlay", "DebugUI::end_frame",
      "glfwSwapBuffers">>

\* The calls made since App::run was entered (from its first loop test on).
RunTrace ==
    IF Positions("App::should_close") = {} THEN <<>>
    ELSE LET first == CHOOSE i \in Positions("App::should_close") :
                         \A j \in Positions("App::should_close") : i <= j
         IN SubSeq(trace, first, Len(trace))

\* C26: while App::run is running (and when an exception has cut it short),
\* the calls it has made are the loop test followed by the steps of a frame in
\* the order poll, tick, viewport update, handle_input, update, begin_frame,
\* render_scene, the three DebugUI calls, swap, again and again: each step once
\* per iteration, none before the previous one, no step of one frame among
\* those of another.  The draw of render_scene comes after its upload, and
\* the overlay is drawn once, after both.
C26_FrameStepsInOrder ==
    (InRenderLoop \/ pc \in {"terminated", main_after_run}) =>
        /\ \A i \in 1..Len(RunTrace) :
              RunTrace[i] = IF (i - 1) % (Len(FrameOrder) + 1) = 0 THEN "App::should_close"
                            ELSE FrameOrder[(i - 1) % (Len(FrameOrder) + 1)]
        /\ pc = "run" => Len(RunTrace) = frame * (Len(FrameOrder) + 1)
        /\ pc = "swap" =>
              /\ Len(RunTrace) = frame * (Len(FrameOrder) + 1) - 1
              /\ Len(LogOf("ImGui_ImplOpenGL3_RenderDrawData")) = 1
        /\ pc = "overlay" =>
              /\ RunTrace[Len(RunTrace)] = "Renderer::render_scene"
              /\ m_scene[1] # <<>> =>
                    (Len(gl.log) = 2 /\ gl.log[1].call = "glBufferData"
                       /\ gl.log[2].call = "glDrawArraysInstanced")

\* The second frame has made all its calls but the swap.
C26_Witness ==
    /\ pc = "swap" /\ frame = 2
    /\ Len(RunTrace) = 2 * Len(FrameOrder) + 1
    /\ Cardinality(Positions("DebugUI::end_frame")) = 2
    /\ Cardinality(Positions("glfwSwapBuffers")) = 1

\* C30: when Shader::create_program has returned or thrown (in a
\* Renderer::init), no shader object is left; after a failure no program
\* object is left that was not there before; after a success the one new
\* program is the handle returned.
C30_CreateProgramLeavesNoObject ==
    /\ [](call.op = "init" => gl.shaders = {})
    /\ [][ (call'.op = "init" /\ call'.drv # "ok") => gl'.programs \subseteq gl.programs ]_vars
    /\ [][ (call'.op = "init" /\ call'.drv = "ok") =>
             gl'.programs \ gl.programs = {m_renderer'[1].m_program} ]_vars

\* C27: a scene saved with save_scene_json and read back with
\* load_scene_json from the file written has the same number of records, in
\* the same order, each with equal mean, scale, rotation (x, y, z and w),
\* opacity and color.
C27_SaveLoadRoundTrip ==
    [][ (call.op = "save_scene_json" /\ call'.op = "load_scene_json") =>
          /\ call'.ret
          /\ Len(m_scene'[1]) = Len(m_scene[1])
          /\ \A i \in 1..Len(m_scene[1]) :
                /\ m_scene'[1][i].mean = m_scene[1][i].mean
                /\ m_scene'[1][i].scale = m_scene[1][i].scale
                /\ m_scene'[1][i].rotation = m_scene[1][i].rotation
                /\ m_scene'[1][i].opacity = m_scene[1][i].opacity
                /\ m_scene'[1][i].color = m_scene[1][i].color ]_vars

\* C24: in a frame in which the right button is released handle_input leaves
\* yaw and pitch as they are, wherever the cursor is, and does not call
\* on_mouse_move; yaw or pitch change only in a frame with the button pressed;
\* the keys have no part in yaw and pitch (these are what the mouse look
\* alone makes them), and without a key the position stays.
C24_LookOnlyWhileButtonHeld ==
    [][ call'.op = "handle_input" =>
          LET cam == m_camera[1]
              look == IF call'.delta = <<>> THEN cam
                      ELSE Camera_on_mouse_move(cam, call'.delta[1][1], call'.delta[1][2])
          IN /\ call'.button = "RELEASE" =>
                   /\ call'.delta = <<>>
                   /\ m_camera'[1].yaw = cam.yaw /\ m_camera'[1].pitch = cam.pitch
             /\ (m_camera'[1].yaw # cam.yaw \/ m_camera'[1].pitch # cam.pitch) =>
                   call'.button = "PRESS"
             /\ m_camera'[1].yaw = look.yaw /\ m_camera'[1].pitch = look.pitch
             /\ call'.keys = {} => m_camera'[1].position = cam.position ]_vars

\* The button is released in the second frame, the cursor is away from the
\* last position sampled and W is held: the camera has moved and still has
\* the yaw it started with.
C24_Witness ==
    /\ call.op = "handle_input" /\ frame = 2
    /\ call.button = "RELEASE" /\ call.cursor # m_last_mouse
    /\ call.keys = {"W"}
    /\ m_camera[1].position # Camera_new.position
    /\ m_camera[1].yaw = Camera_new.yaw

C29_PitchWithinLimit ==
    /\ [](m_camera[1].pitch \in (-pitchLimit)..pitchLimit)
    /\ [](/\ glm_cross(Camera_forward(m_camera[1]), worldUp) # <<0, 0, 0>>
          /\ Camera_right(m_camera[1]) # <<0, 0, 0>>
          /\ Camera_up(m_camera[1]) # <<0, 0, 0>>)
    /\ [][ call'.op = "on_mouse_move" => m_camera'[1].position = m_camera[1].position ]_vars
    /\ [][ call'.op = "on_keyboard" =>
             /\ m_camera'[1].pitch = m_camera[1].pitch
             /\ m_camera'[1].yaw = m_camera[1].yaw ]_vars

\* A mouse move of 200 degrees upwards has left the pitch at the limit.
C29_Witness ==
    /\ call.op = "on_mouse_move"
    /\ call.delta[1][2] = -2000
    /\ m_camera[1].pitch = pitchLimit

====
